---- MODULE Spec2Model ----
(***************************************************************************)
(* Group rolling update of infrakit (package group, rollingupdate.go):     *)
(* the classifier desiredAndUndesiredInstances, the quiescence wait        *)
(* waitUntilQuiesced and the driver Run, with the Scaled collaborator      *)
(* (List, Health, Destroy) as the environment.                             *)
(***************************************************************************)
EXTENDS Integers, Sequences, FiniteSets, TLC

(***************************************************************************)
(* Bounds of the model.                                                    *)
(***************************************************************************)
\* longest snapshot handed to the classifier in SpecClassify
MaxLen == 2
\* instance IDs of the group of SpecRun are 1..MaxID (initial and provisioned)
MaxID == 2
\* Run stops being followed once it has issued MaxDestroys Destroy calls
MaxDestroys == 2
\* largest group a whole rollout is followed on (SpecRollout)
MaxN == 3
\* enrollment: number of key values, and of instances in each list of a sync
MaxKeys == 3
MaxInst == 2

(***************************************************************************)
(* Values.                                                                 *)
(***************************************************************************)
\* a nil pointer (*instance.LogicalID, *PolicyLeaderSelfUpdate)
Nil == "nil"
\* the well-known tag keys
ConfigSHATag == "infrakit.config.hash"
LogicalIDTag == "infrakit.logicalID"
TagKeys == {ConfigSHATag, LogicalIDTag}

PolicyLeaderSelfUpdateNever == "never"
PolicyLeaderSelfUpdateLast == "last"
Policies == {Nil, PolicyLeaderSelfUpdateNever, PolicyLeaderSelfUpdateLast}

\* flavor.Health
Healthy == "Healthy"
Unhealthy == "Unhealthy"
UnknownHealth == "Unknown"
HealthStates == {Healthy, Unhealthy, UnknownHealth}

\* config hashes: the empty string is a string like any other
OldHash == "h0"
NewHash == "h1"
LogicalIDs == {"m1", "m2"}
SelfIDs == {Nil, "m1"}

\* every map from a subset of the tag keys to the values of vals
TagMaps(cfgVals, lidVals) ==
    UNION {[ks -> cfgVals \cup lidVals] : ks \in SUBSET TagKeys}

WellTyped(tags, cfgVals, lidVals) ==
    /\ ConfigSHATag \in DOMAIN tags => tags[ConfigSHATag] \in cfgVals
    /\ LogicalIDTag \in DOMAIN tags => tags[LogicalIDTag] \in lidVals

\* instance.Description: ID, LogicalID (Nil when absent), Tags
Descriptions(ids, cfgVals, lidVals) ==
    {[ID |-> id, LogicalID |-> l, Tags |-> t] :
        id \in ids, l \in {Nil} \cup LogicalIDs,
        t \in {m \in TagMaps(cfgVals, lidVals) : WellTyped(m, cfgVals, lidVals)}}

\* groupSettings: config (instance hash, Allocation.Size), self, options
Settings(hashes, sizes, selfs, policies) ==
    {[config |-> [hash |-> h, Size |-> n], self |-> s,
      options |-> [PolicyLeaderSelfUpdate |-> p]] :
        h \in hashes, n \in sizes, s \in selfs, p \in policies}

(***************************************************************************)
(* Pure functions of rollingupdate.go.                                     *)
(***************************************************************************)
minInt_Max(a, b) == IF a > b THEN a ELSE b

minInt(a, b) == IF a < b THEN a ELSE b

\* v, has := inst.Tags[key]: the value is the zero value "" when has is false
TagHas(inst, key) == key \in DOMAIN inst.Tags
TagValue(inst, key) == IF key \in DOMAIN inst.Tags THEN inst.Tags[key] ELSE ""

\* settings.config.InstanceHash()
InstanceHash(config) == config.hash

isSelf_TagOnlyWhenNoLogicalID(inst, settings) ==
    IF settings.self # Nil
    THEN IF inst.LogicalID # Nil
         THEN inst.LogicalID = settings.self
         ELSE IF TagHas(inst, LogicalIDTag)
              THEN settings.self = TagValue(inst, LogicalIDTag)
              ELSE FALSE
    ELSE FALSE

isSelf(inst, settings) ==
    IF settings.self # Nil
    THEN IF inst.LogicalID # Nil /\ inst.LogicalID = settings.self
         THEN TRUE
         ELSE IF TagHas(inst, LogicalIDTag)
              THEN settings.self = TagValue(inst, LogicalIDTag)
              ELSE FALSE
    ELSE FALSE

doNotDestroySelf_PolicyLast(inst, settings) ==
    IF ~isSelf(inst, settings) THEN FALSE
    ELSE IF settings.options.PolicyLeaderSelfUpdate = Nil THEN FALSE
    ELSE settings.options.PolicyLeaderSelfUpdate = PolicyLeaderSelfUpdateLast

doNotDestroySelf_Inverted(inst, settings) ==
    IF isSelf(inst, settings) THEN FALSE
    ELSE IF settings.options.PolicyLeaderSelfUpdate = Nil THEN FALSE
    ELSE settings.options.PolicyLeaderSelfUpdate = PolicyLeaderSelfUpdateNever

doNotDestroySelf(inst, settings) ==
    IF ~isSelf(inst, settings) THEN FALSE
    ELSE IF settings.options.PolicyLeaderSelfUpdate = Nil THEN FALSE
    ELSE settings.options.PolicyLeaderSelfUpdate = PolicyLeaderSelfUpdateNever

\* the condition of the if statement in the loop of the classifier
isDesired_ZeroValueLookup(inst, settings) ==
    \/ TagValue(inst, ConfigSHATag) = InstanceHash(settings.config)
    \/ doNotDestroySelf(inst, settings)

isDesired_HashOnlyWhenNotSelf(inst, settings) ==
    IF isSelf(inst, settings)
    THEN doNotDestroySelf(inst, settings)
    ELSE TagHas(inst, ConfigSHATag)
            /\ TagValue(inst, ConfigSHATag) = InstanceHash(settings.config)

isDesired(inst, settings) ==
    \/ (TagHas(inst, ConfigSHATag)
            /\ TagValue(inst, ConfigSHATag) = InstanceHash(settings.config))
    \/ doNotDestroySelf(inst, settings)

RECURSIVE classifyLoop(_, _, _, _, _)
classifyLoop(instances, settings, i, desired, undesired) ==
    IF i > Len(instances) THEN <<desired, undesired>>
    ELSE IF isDesired(instances[i], settings)
         THEN classifyLoop(instances, settings, i + 1,
                           Append(desired, instances[i]), undesired)
         ELSE classifyLoop(instances, settings, i + 1,
                           desired, Append(undesired, instances[i]))

RECURSIVE classifyLoop_Prepend(_, _, _, _, _)
classifyLoop_Prepend(instances, settings, i, desired, undesired) ==
    IF i > Len(instances) THEN <<desired, undesired>>
    ELSE IF isDesired(instances[i], settings)
         THEN classifyLoop_Prepend(instances, settings, i + 1,
                                   <<instances[i]>> \o desired, undesired)
         ELSE classifyLoop_Prepend(instances, settings, i + 1,
                                   desired, Append(undesired, instances[i]))

desiredAndUndesiredInstances_Prepend(instances, settings) ==
    classifyLoop_Prepend(instances, settings, 1, <<>>, <<>>)

\* <<desired, undesired>>
desiredAndUndesiredInstances(instances, settings) ==
    classifyLoop(instances, settings, 1, <<>>, <<>>)

(***************************************************************************)
(* Helpers on sequences and sets.                                          *)
(***************************************************************************)
Range(s) == {s[i] : i \in DOMAIN s}

\* every ordering of a finite set as a sequence without repetition
RECURSIVE Permutations_(_)
Permutations_(S) ==
    IF S = {} THEN {<<>>}
    ELSE UNION {{<<x>> \o s : s \in Permutations_(S \ {x})} : x \in S}

CountOf(s, v) == Cardinality({i \in DOMAIN s : s[i] = v})

(***************************************************************************)
(* sortByID{list, settings}: instances ordered by ID, an instance that is  *)
(* self under the given settings after every other one.                    *)
(***************************************************************************)
sortLess(a, b, settings) ==
    IF isSelf(a, settings) THEN FALSE
    ELSE IF isSelf(b, settings) THEN TRUE
    ELSE a.ID < b.ID

RECURSIVE insertSorted(_, _, _)
insertSorted(sorted, inst, settings) ==
    IF sorted = <<>> THEN <<inst>>
    ELSE IF sortLess(inst, Head(sorted), settings)
         THEN <<inst>> \o sorted
         ELSE <<Head(sorted)>> \o insertSorted(Tail(sorted), inst, settings)

RECURSIVE sortByID(_, _)
sortByID(list, settings) ==
    IF list = <<>> THEN <<>>
    ELSE insertSorted(sortByID(Tail(list), settings), Head(list), settings)

(***************************************************************************)
(* State.                                                                  *)
(***************************************************************************)
VARIABLES
    \* SpecClassify: one call of desiredAndUndesiredInstances
    cInstances,     \* the argument instances
    cSettings,      \* the argument settings
    cResult,        \* <<desired, undesired>> once the call has returned
    cPc,            \* "idle" | "call" | "returned"
    \* the group behind the Scaled collaborator
    group,          \* the instance descriptions List would return now
    nextID,         \* the ID of the next instance to be provisioned
    steady,         \* the IDs of the instances whose health has settled at Healthy
    \* the rollingupdate struct
    updatingFrom,
    updatingTo,
    stop,           \* the stop channel: "open" | "closed"
    stopCalls,      \* the number of calls of Stop so far
    \* one call of Run
    pc,             \* "start" | "select" | "health" | "quiesced" | "done" | "panic"
    err,            \* the value Run returned, once pc = "done"
    expectedNewInstances,
    matching,       \* waitUntilQuiesced: the matching instances of the poll
    idx,            \* waitUntilQuiesced: position of the range loop in matching
    numHealthy,     \* waitUntilQuiesced: the counter of the poll
    \* what an observer of the Scaled calls records
    reported,       \* the answers of Health in the current poll, in call order
    lastPoll,       \* outcome of the last completed poll of the current wait
    destroyed,      \* the instances handed to Destroy, in call order
    reasons,        \* the reason codes handed to Destroy, in call order
    d0,             \* len(desired) of the initial snapshot of Run
    u0,             \* length of the undesired part of the initial snapshot
    listFailed,     \* a call of labelAndList has returned an error
    confirmed,      \* numHealthy of the last poll that ended a wait with nil
    lastUndesired,  \* len(undesiredInstances) at the last re-fetch of Run
    lateStop,       \* Stop was called after the last wait returned; Run went on since
    \* SpecEnroll: one sync of the enrollment controller
    eSource,        \* the key of each source instance, by position in the list
    eEnrolled,      \* the key of each enrolled instance, by position
    eOptions,       \* SourceParseErrOp and EnrollmentParseErrOp as configured
    ePc,            \* "idle" | "sync" | "returned"
    eCalls,         \* the Provision and Destroy calls of the sync, in order
    \* one call of a function of the terraform instance plugin
    tCall,          \* the function called, "none" when there is no call
    tArgs,          \* its receiver and arguments, and what its collaborators answer
    tResult,        \* what it returned and what it left in its receiver
    tPc,            \* "idle" | "call" | "returned"
    \* one call of ManagerFlavor.Drain and the routine it starts
    dArgs,          \* flavorProperties, the association tag, isSelf(inst)
    dPc,            \* Drain: "idle" | "call" | "spawned" | "returned"
    dResult,        \* the error Drain returned, "nil" for none
    dClient,        \* the Docker client: "none" | "open" | "closed"
    dNodes,         \* len(nodes) of the NodeList answer, -1 without one
    dCalls,         \* the calls on the Docker client, in order
    gPc,            \* the routine: "none" | "loop" | "leave" | "ended"
    attempt         \* the routine's attempt counter

cvars == <<cInstances, cSettings, cResult, cPc>>
envvars == <<group, nextID, steady>>
cfgvars == <<updatingFrom, updatingTo>>
stopvars == <<stop, stopCalls>>
runvars == <<pc, err, expectedNewInstances, matching, idx, numHealthy>>
obsvars ==
    <<reported, lastPoll, destroyed, reasons, d0, u0, listFailed, confirmed,
      lastUndesired, lateStop>>
evars == <<eSource, eEnrolled, eOptions, ePc, eCalls>>
tvars == <<tCall, tArgs, tResult, tPc>>
dvars == <<dArgs, dPc, dResult, dClient, dNodes, dCalls, gPc, attempt>>
vars == <<cvars, envvars, cfgvars, stopvars, runvars, obsvars, evars, tvars, dvars>>

(***************************************************************************)
(* Errors returned by Run (msg, and the instance ID the message names).    *)
(***************************************************************************)
ErrNil == [msg |-> "", ID |-> 0]
ErrHalted == [msg |-> "Update halted by user", ID |-> 0]
ErrUnhealthy(id) == [msg |-> "Instance %s is unhealthy", ID |-> id]
ErrList == [msg |-> "list failed", ID |-> 0]

(***************************************************************************)
(* Enrollment: the values of a sync.                                       *)
(***************************************************************************)
\* the key selector could not be rendered for the instance
NoKey == 0
EnrollKeys == 1..MaxKeys

SourceParseErrorEnableDestroy == "EnableDestroy"
SourceParseErrorDisableDestroy == "DisableDestroy"
EnrolledParseErrorEnableProvision == "EnableProvision"
EnrolledParseErrorDisableProvision == "DisableProvision"

\* instance.RollingUpdate, the context of the Destroy calls of Run
RollingUpdate == "rolling-update"

\* instance.Termination, the context of the Destroy calls of a sync
Termination == "terminate"

\* no node is being drained
DIdle ==
    /\ dArgs = <<>>
    /\ dPc = "idle"
    /\ dResult = "nil"
    /\ dClient = "none"
    /\ dNodes = -1
    /\ dCalls = <<>>
    /\ gPc = "none"
    /\ attempt = 0

\* no function of the terraform instance plugin is being called
TIdle ==
    /\ tCall = "none"
    /\ tArgs = <<>>
    /\ tResult = <<>>
    /\ tPc = "idle"

\* no enrollment sync exists (SpecClassify, SpecRun, SpecRollout)
EIdle ==
    /\ eSource = <<>>
    /\ eEnrolled = <<>>
    /\ eOptions = [SourceParseErrOp |-> "", EnrollmentParseErrOp |-> ""]
    /\ ePc = "idle"
    /\ eCalls = <<>>

(***************************************************************************)
(* SpecClassify: the classifier on every bounded input.                    *)
(***************************************************************************)
\* snapshots: the i-th instance has ID i (IDs are unique within a snapshot)
ClassifyCfgTags == {"", NewHash}
ClassifyHashes == {"", NewHash}
ClassifyLidTags == LogicalIDs

RECURSIVE SnapshotsOfLen(_)
SnapshotsOfLen(n) ==
    IF n = 0 THEN {<<>>}
    ELSE {Append(s, d) : s \in SnapshotsOfLen(n - 1),
                         d \in Descriptions({n}, ClassifyCfgTags, ClassifyLidTags)}

ClassifySnapshots(maxLen) == UNION {SnapshotsOfLen(n) : n \in 0..maxLen}
ClassifySettings == Settings(ClassifyHashes, {0}, SelfIDs, Policies)

\* the classifier is not being called (SpecRun)
CIdle ==
    /\ cInstances = <<>>
    /\ cSettings = CHOOSE s \in ClassifySettings : TRUE
    /\ cResult = <<>>
    /\ cPc = "idle"

\* no rolling update exists (SpecClassify)
RIdle ==
    /\ group = {}
    /\ nextID = 1
    /\ steady = {}
    /\ updatingFrom = CHOOSE s \in ClassifySettings : TRUE
    /\ updatingTo = CHOOSE s \in ClassifySettings : TRUE
    /\ stop = "open"
    /\ stopCalls = 0
    /\ pc = "done"
    /\ err = ErrNil
    /\ expectedNewInstances = 0
    /\ matching = <<>>
    /\ idx = 1
    /\ numHealthy = 0
    /\ reported = <<>>
    /\ lastPoll = "none"
    /\ destroyed = <<>>
    /\ reasons = <<>>
    /\ d0 = 0
    /\ u0 = 0
    /\ listFailed = FALSE
    /\ confirmed = 0
    /\ lastUndesired = -1
    /\ lateStop = FALSE

InitClassify ==
    /\ cInstances \in ClassifySnapshots(MaxLen)
    /\ cSettings \in ClassifySettings
    /\ cResult = <<>>
    /\ cPc = "call"
    /\ RIdle
    /\ EIdle
    /\ TIdle
    /\ DIdle

ClassifyCall ==
    /\ cPc = "call"
    /\ cResult' = desiredAndUndesiredInstances(cInstances, cSettings)
    /\ cPc' = "returned"
    /\ UNCHANGED <<cInstances, cSettings>>
    /\ UNCHANGED <<envvars, cfgvars, stopvars, runvars, obsvars, tvars, dvars, evars>>

NextClassify == ClassifyCall

SpecClassify == InitClassify /\ [][NextClassify]_vars

(***************************************************************************)
(* SpecRun: one call of Run against a group that changes under it.         *)
(***************************************************************************)
Tagged(id, lid, hash) ==
    [ID |-> id, LogicalID |-> lid, Tags |-> [k \in {ConfigSHATag} |-> hash]]

\* the groups Run may find: instances 1..k, each tagged with the old or the
\* new hash, at most one of them holding the logical ID of a manager slot
InitGroups ==
    UNION {
        {{Tagged(i, lid[i], hash[i]) : i \in 1..k} :
            hash \in [1..k -> {OldHash, NewHash}],
            lid \in {l \in [1..k -> {Nil, "m1"}] :
                       \A i, j \in 1..k : l[i] # Nil /\ l[j] # Nil => i = j}}
        : k \in 0..MaxID}

\* self and the leader self update policy, as the plugin options give them
SelfAndPolicy ==
    {<<Nil, PolicyLeaderSelfUpdateLast>>, <<"m1", Nil>>,
     <<"m1", PolicyLeaderSelfUpdateNever>>, <<"m1", PolicyLeaderSelfUpdateLast>>}

settingsOf(hash, size, sp) ==
    [config |-> [hash |-> hash, Size |-> size], self |-> sp[1],
     options |-> [PolicyLeaderSelfUpdate |-> sp[2]]]

InitRun ==
    /\ CIdle
    /\ EIdle
    /\ TIdle
    /\ DIdle
    /\ group \in InitGroups
    /\ nextID = Cardinality(group) + 1
    /\ steady = {}
    /\ \E size \in 0..MaxID, sp \in SelfAndPolicy :
          /\ updatingFrom = settingsOf(OldHash, size, sp)
          /\ updatingTo = settingsOf(NewHash, size, sp)
    /\ stop = "open"
    /\ stopCalls = 0
    /\ pc = "start"
    /\ err = ErrNil
    /\ expectedNewInstances = 0
    /\ matching = <<>>
    /\ idx = 1
    /\ numHealthy = 0
    /\ reported = <<>>
    /\ lastPoll = "none"
    /\ destroyed = <<>>
    /\ reasons = <<>>
    /\ d0 = 0
    /\ u0 = 0
    /\ listFailed = FALSE
    /\ confirmed = 0
    /\ lastUndesired = -1
    /\ lateStop = FALSE

\* labelAndList(r.scaled) without error: the group, in the order List gives
labelAndList == Permutations_(group)

\* r.scaled.Health(inst): the flavor's answer at the time of the call, which
\* nothing in the update constrains; an instance whose health has settled
\* answers Healthy from then on
HealthAnswers(inst) == IF inst.ID \in steady THEN {Healthy} ELSE HealthStates

\* the second argument of waitUntilQuiesced in the current iteration of Run
threshold == minInt(expectedNewInstances, updatingTo.config.Size)

ListFails_Retried ==
    /\ pc \in {"start", "select", "quiesced"}
    /\ listFailed' = TRUE
    /\ UNCHANGED <<tvars, dvars, evars, cvars, envvars, cfgvars, stopvars, runvars>>
    /\ UNCHANGED <<reported, lastPoll, destroyed, reasons, d0, u0, confirmed,
                   lastUndesired, lateStop>>

\* labelAndList returns an error: Run (or the wait inside it) returns it
ListFails ==
    /\ pc \in {"start", "select", "quiesced"}
    /\ pc' = "done"
    /\ err' = ErrList
    /\ listFailed' = TRUE
    /\ lateStop' = FALSE
    /\ UNCHANGED <<expectedNewInstances, matching, idx, numHealthy>>
    /\ UNCHANGED <<reported, lastPoll, destroyed, reasons, d0, u0, confirmed,
                   lastUndesired>>
    /\ UNCHANGED <<tvars, dvars, evars, cvars, envvars, cfgvars, stopvars>>

\* Run up to its first call of waitUntilQuiesced
RunStart ==
    /\ pc = "start"
    /\ \E instances \in labelAndList :
          LET desired == desiredAndUndesiredInstances(instances, updatingTo)[1]
          IN /\ expectedNewInstances' = Len(desired)
             /\ d0' = Len(desired)
             /\ u0' = Len(instances) - Len(desired)
    /\ pc' = "select"
    /\ UNCHANGED <<err, matching, idx, numHealthy>>
    /\ UNCHANGED <<reported, lastPoll, destroyed, reasons, listFailed, confirmed,
                   lastUndesired, lateStop>>
    /\ UNCHANGED <<tvars, dvars, evars, cvars, envvars, cfgvars, stopvars>>

\* case flavor.Unhealthy of the switch on the answer of Health
healthAborts_Never(h) == FALSE

healthAborts(h) == h = Unhealthy

\* case flavor.Healthy of the switch: the counter after the answer h
healthCount_AllButUnhealthy(n, h) == IF h # Unhealthy THEN n + 1 ELSE n

healthCount(n, h) == IF h = Healthy THEN n + 1 ELSE n

\* if numHealthy >= int(expectedNewInstances)
quiesced_OffByOne(n, expected) == n + 1 >= expected

quiesced(n, expected) == n >= expected

\* expectedNewInstances++
nextExpected_Same(e) == e

nextExpected(e) == e + 1

\* the check after the range loop of a poll, with n healthy instances counted
PollEnd(n) ==
    IF quiesced(n, threshold)
    THEN pc' = "quiesced" /\ lastPoll' = "ok" /\ confirmed' = n
    ELSE pc' = "select" /\ lastPoll' = "wait" /\ confirmed' = confirmed

\* matching, _ := desiredAndUndesiredInstances(instances, r.updatingTo)
matchingOf_All(instances) == instances

matchingOf(instances) ==
    desiredAndUndesiredInstances(instances, updatingTo)[1]

\* case <-ticker.C, up to the first call of Health
PollTick ==
    /\ pc = "select"
    /\ \E instances \in labelAndList : matching' = matchingOf(instances)
    /\ numHealthy' = 0
    /\ idx' = 1
    /\ reported' = <<>>
    /\ IF matching' = <<>>
       THEN PollEnd(0)
       ELSE pc' = "health" /\ lastPoll' = "none" /\ confirmed' = confirmed
    /\ lateStop' = FALSE
    /\ UNCHANGED <<err, expectedNewInstances, destroyed, reasons, d0, u0, listFailed,
                   lastUndesired>>
    /\ UNCHANGED <<tvars, dvars, evars, cvars, envvars, cfgvars, stopvars>>

\* one iteration of the range loop over matching
PollHealth ==
    /\ pc = "health"
    /\ \E h \in HealthAnswers(matching[idx]) :
          /\ reported' = Append(reported, h)
          /\ IF healthAborts(h)
             THEN /\ pc' = "done"
                  /\ err' = ErrUnhealthy(matching[idx].ID)
                  /\ lastPoll' = "unhealthy"
                  /\ UNCHANGED <<numHealthy, idx, confirmed>>
             ELSE /\ numHealthy' = healthCount(numHealthy, h)
                  /\ err' = err
                  /\ IF idx = Len(matching)
                     THEN idx' = idx /\ PollEnd(numHealthy')
                     ELSE /\ idx' = idx + 1
                          /\ UNCHANGED <<pc, lastPoll, confirmed>>
    /\ UNCHANGED <<expectedNewInstances, matching, destroyed, reasons, d0, u0, listFailed,
                   lastUndesired, lateStop>>
    /\ UNCHANGED <<tvars, dvars, evars, cvars, envvars, cfgvars, stopvars>>

WaitStop_BreakOnly ==
    /\ pc = "select"
    /\ stop = "closed"
    /\ UNCHANGED vars

WaitStop_ReturnsNil ==
    /\ pc = "select"
    /\ stop = "closed"
    /\ pc' = "done"
    /\ err' = ErrNil
    /\ lateStop' = FALSE
    /\ UNCHANGED <<expectedNewInstances, matching, idx, numHealthy>>
    /\ UNCHANGED <<reported, lastPoll, destroyed, reasons, d0, u0, listFailed, confirmed,
                   lastUndesired>>
    /\ UNCHANGED <<tvars, dvars, evars, cvars, envvars, cfgvars, stopvars>>

\* case <-r.stop
WaitStop ==
    /\ pc = "select"
    /\ stop = "closed"
    /\ pc' = "done"
    /\ err' = ErrHalted
    /\ lateStop' = FALSE
    /\ UNCHANGED <<expectedNewInstances, matching, idx, numHealthy>>
    /\ UNCHANGED <<reported, lastPoll, destroyed, reasons, d0, u0, listFailed, confirmed,
                   lastUndesired>>
    /\ UNCHANGED <<tvars, dvars, evars, cvars, envvars, cfgvars, stopvars>>

DestroyTargets_All(undesiredInstances) ==
    sortByID(undesiredInstances, updatingFrom)

DestroyTargets_LastSorted(undesiredInstances) ==
    <<sortByID(undesiredInstances, updatingFrom)[Len(undesiredInstances)]>>

DestroyTargets_Unsorted(undesiredInstances) ==
    <<undesiredInstances[1]>>

\* the instances one iteration of Run hands to Destroy
DestroyTargets(undesiredInstances) ==
    <<sortByID(undesiredInstances, updatingFrom)[1]>>

\* _, undesiredInstances := desiredAndUndesiredInstances(instances, r.updatingTo)
undesiredInstancesOf_From(instances) ==
    desiredAndUndesiredInstances(instances, updatingFrom)[2]

undesiredInstancesOf(instances) ==
    desiredAndUndesiredInstances(instances, updatingTo)[2]

\* if len(undesiredInstances) == 0 { break }
updateComplete_AtMostOne(undesiredInstances) == Len(undesiredInstances) <= 1

updateComplete(undesiredInstances) == Len(undesiredInstances) = 0

\* Run from the return of waitUntilQuiesced to the next call of it, or to
\* the return of Run; Run is followed up to maxDestroys calls of Destroy
RunIterateUpTo(maxDestroys) ==
    /\ pc = "quiesced"
    /\ \E instances \in labelAndList :
          LET undesiredInstances == undesiredInstancesOf(instances)
          IN /\ lastUndesired' = Len(undesiredInstances)
             /\ IF updateComplete(undesiredInstances)
                THEN /\ pc' = "done"
                     /\ err' = ErrNil
                     /\ lateStop' = FALSE
                     /\ UNCHANGED <<expectedNewInstances, matching, idx, numHealthy>>
                     /\ UNCHANGED <<reported, lastPoll, destroyed, reasons>>
                ELSE /\ Len(destroyed) < maxDestroys
                     /\ destroyed' = destroyed \o DestroyTargets(undesiredInstances)
                     /\ reasons' = reasons \o
                          [i \in DOMAIN DestroyTargets(undesiredInstances) |->
                              RollingUpdate]
                     /\ expectedNewInstances' = nextExpected(expectedNewInstances)
                     /\ pc' = "select"
                     /\ err' = err
                     /\ matching' = <<>>
                     /\ idx' = 1
                     /\ numHealthy' = 0
                     /\ reported' = <<>>
                     /\ lastPoll' = "none"
                     /\ lateStop' = lateStop
    /\ UNCHANGED <<d0, u0, listFailed, confirmed>>
    /\ UNCHANGED <<tvars, dvars, evars, cvars, envvars, cfgvars, stopvars>>

RunIterate == RunIterateUpTo(MaxDestroys)

Stop_Interrupts ==
    /\ stop = "open"
    /\ pc # "done"
    /\ stop' = "closed"
    /\ stopCalls' = stopCalls + 1
    /\ lateStop' = (pc = "quiesced")
    /\ pc' = "done"
    /\ err' = ErrHalted
    /\ UNCHANGED <<expectedNewInstances, matching, idx, numHealthy>>
    /\ UNCHANGED <<reported, lastPoll, destroyed, reasons, d0, u0, listFailed, confirmed,
                   lastUndesired>>
    /\ UNCHANGED <<tvars, dvars, evars, cvars, envvars, cfgvars>>

\* Stop, called once by the owner of the update while Run is in progress
Stop ==
    /\ stop = "open"
    /\ pc # "done"
    /\ stop' = "closed"
    /\ stopCalls' = stopCalls + 1
    /\ lateStop' = (pc = "quiesced")
    /\ UNCHANGED <<reported, lastPoll, destroyed, reasons, d0, u0, listFailed, confirmed,
                   lastUndesired>>
    /\ UNCHANGED <<tvars, dvars, evars, cvars, envvars, cfgvars, runvars>>

(***************************************************************************)
(* The group's side of Scaled: provisioning is followed while Run is in    *)
(* progress, the effect of the Destroy calls of Run also after its return. *)
(***************************************************************************)
\* an instance is provisioned, tagged with the hash its provisioner holds
EnvProvision ==
    /\ pc # "done"
    /\ nextID <= MaxID
    /\ \E hash \in {OldHash, NewHash} :
          group' = group \cup {Tagged(nextID, Nil, hash)}
    /\ nextID' = nextID + 1
    /\ UNCHANGED <<steady, tvars, dvars, evars, cvars, cfgvars, stopvars, runvars, obsvars>>

\* a Destroy that was issued takes effect, during Run or after its return
EnvRemove ==
    /\ \E g \in group :
          /\ g \in Range(destroyed)
          /\ group' = group \ {g}
    /\ UNCHANGED <<nextID, steady>>
    /\ UNCHANGED <<tvars, dvars, evars, cvars, cfgvars, stopvars, runvars, obsvars>>

NextRun ==
    \/ RunStart
    \/ ListFails
    \/ PollTick
    \/ PollHealth
    \/ WaitStop
    \/ RunIterate
    \/ Stop
    \/ EnvProvision
    \/ EnvRemove

SpecRun == InitRun /\ [][NextRun]_vars

(***************************************************************************)
(* Properties of the classifier (SpecClassify).                            *)
(***************************************************************************)
cDesired == cResult[1]
cUndesired == cResult[2]

\* how often inst occurs in the sequence s
Occurrences(s, inst) == Cardinality({i \in DOMAIN s : s[i] = inst})

\* position in the input of an instance of the input (IDs are unique there)
InputPos(inst) == CHOOSE i \in DOMAIN cInstances : cInstances[i] = inst

KeepsInputOrder(s) ==
    \A j, k \in DOMAIN s : j < k => InputPos(s[j]) < InputPos(s[k])

PolicyIsNever(settings) ==
    settings.options.PolicyLeaderSelfUpdate = PolicyLeaderSelfUpdateNever

\* C1: the classifier puts every instance of the snapshot in exactly one of
\* desired and undesired, puts nothing else there, and keeps the order of the
\* snapshot within each of the two.
C1_Partition ==
    cPc = "returned" =>
        /\ Len(cDesired) + Len(cUndesired) = Len(cInstances)
        /\ Range(cDesired) \cup Range(cUndesired) \subseteq Range(cInstances)
        /\ \A i \in DOMAIN cInstances :
              Occurrences(cDesired, cInstances[i])
                  + Occurrences(cUndesired, cInstances[i]) = 1
        /\ KeepsInputOrder(cDesired)
        /\ KeepsInputOrder(cUndesired)

C1_Witness ==
    /\ cPc = "returned"
    /\ Len(cInstances) = MaxLen
    /\ Len(cDesired) = MaxLen
    /\ cDesired[1].ID = 1

\* C3: an instance that is self under settings whose policy is Never is
\* desired, also when its config hash tag is absent or is not the target hash.
C3_SelfNeverIsDesired ==
    cPc = "returned" =>
        \A i \in DOMAIN cInstances :
            isSelf(cInstances[i], cSettings) /\ PolicyIsNever(cSettings)
                => cInstances[i] \in Range(cDesired)

C3_Witness ==
    /\ cPc = "returned"
    /\ PolicyIsNever(cSettings)
    /\ \E i, j \in DOMAIN cInstances :
          /\ ConfigSHATag \notin DOMAIN cInstances[i].Tags
          /\ cInstances[i].LogicalID = cSettings.self
          /\ cInstances[i] \in Range(cDesired)
          /\ ConfigSHATag \in DOMAIN cInstances[j].Tags
          /\ cInstances[j].Tags[ConfigSHATag] # cSettings.config.hash
          /\ cInstances[j].LogicalID # cSettings.self
          /\ LogicalIDTag \in DOMAIN cInstances[j].Tags
          /\ cInstances[j].Tags[LogicalIDTag] = cSettings.self
          /\ cInstances[j] \in Range(cDesired)

\* C4: an instance that carries the config hash tag with the target hash as
\* its value is desired, whether or not it is self and whatever the policy.
C4_TargetHashIsDesired ==
    cPc = "returned" =>
        \A i \in DOMAIN cInstances :
            (/\ ConfigSHATag \in DOMAIN cInstances[i].Tags
             /\ cInstances[i].Tags[ConfigSHATag] = cSettings.config.hash)
                => cInstances[i] \in Range(cDesired)

C4_Witness ==
    /\ cPc = "returned"
    /\ cSettings.options.PolicyLeaderSelfUpdate = PolicyLeaderSelfUpdateLast
    /\ \E i \in DOMAIN cInstances :
          /\ ConfigSHATag \in DOMAIN cInstances[i].Tags
          /\ cInstances[i].Tags[ConfigSHATag] = cSettings.config.hash
          /\ isSelf(cInstances[i], cSettings)
          /\ cInstances[i] \in Range(cDesired)

\* C5: an instance the self override does not protect is undesired when its
\* config hash tag is missing or is not the target hash; a missing tag does
\* not count as the empty target hash.
C5_UnprotectedMismatchIsUndesired ==
    cPc = "returned" =>
        \A i \in DOMAIN cInstances :
            (/\ ~(isSelf(cInstances[i], cSettings) /\ PolicyIsNever(cSettings))
             /\ \/ ConfigSHATag \notin DOMAIN cInstances[i].Tags
                \/ cInstances[i].Tags[ConfigSHATag] # cSettings.config.hash)
                => cInstances[i] \in Range(cUndesired)

C5_Witness ==
    /\ cPc = "returned"
    /\ cSettings.config.hash = ""
    /\ \E i \in DOMAIN cInstances :
          /\ ConfigSHATag \notin DOMAIN cInstances[i].Tags
          /\ isSelf(cInstances[i], cSettings)
          /\ cSettings.options.PolicyLeaderSelfUpdate = PolicyLeaderSelfUpdateLast
          /\ cInstances[i] \in Range(cUndesired)

(***************************************************************************)
(* Properties of Run and waitUntilQuiesced (SpecRun).                      *)
(***************************************************************************)
\* the poll that reported has the answers of is complete
PollComplete == Len(reported) = Len(matching)

\* C2: when the target settings name a self and the policy is Never, no
\* instance that is self is ever handed to Destroy, whatever its hash tag.
C2_SelfNeverDestroyed ==
    (updatingTo.self # Nil /\ PolicyIsNever(updatingTo)) =>
        \A i \in DOMAIN destroyed :
            /\ destroyed[i].LogicalID # updatingTo.self
            /\ ~isSelf(destroyed[i], updatingTo)

\* the group is one healthy self instance with the old hash: Run has returned
\* nil without a Destroy
C2_Witness ==
    /\ updatingTo.self = "m1"
    /\ PolicyIsNever(updatingTo)
    /\ updatingTo.config.Size >= 1
    /\ group = {Tagged(1, "m1", OldHash)}
    /\ nextID = 2
    /\ reported = <<Healthy>>
    /\ pc = "done"
    /\ err = ErrNil
    /\ destroyed = <<>>

\* C6: a wait returns nil only at a complete poll in which at least
\* threshold matching instances were reported Healthy and none Unhealthy, and
\* a complete poll after which the wait goes on was not such a poll.
C6_QuiescedExactly ==
    /\ pc = "quiesced" => lastPoll = "ok"
    /\ lastPoll = "ok" =>
          /\ PollComplete
          /\ CountOf(reported, Healthy) >= threshold
          /\ CountOf(reported, Unhealthy) = 0
    /\ lastPoll = "wait" =>
          /\ PollComplete
          /\ pc # "quiesced"
          /\ ~(CountOf(reported, Healthy) >= threshold
                  /\ CountOf(reported, Unhealthy) = 0)

\* a wait for two healthy instances returned nil at a poll that counted two
C6_Witness ==
    /\ pc = "quiesced"
    /\ threshold = 2
    /\ reported = <<Healthy, Healthy>>
    /\ numHealthy = 2

\* C7: as soon as a poll has an Unhealthy answer the wait, and Run, have
\* returned the error that names the instance that gave it, whatever the
\* number of Healthy answers of that poll.
C7_UnhealthyAborts ==
    CountOf(reported, Unhealthy) > 0 =>
        /\ pc = "done"
        /\ lastPoll = "unhealthy"
        /\ reported[Len(reported)] = Unhealthy
        /\ CountOf(reported, Unhealthy) = 1
        /\ err = ErrUnhealthy(matching[Len(reported)].ID)

\* the Healthy answers of the poll already met the threshold
C7_Witness ==
    /\ pc = "done"
    /\ err.msg = ErrUnhealthy(0).msg
    /\ threshold >= 1
    /\ CountOf(reported, Healthy) >= threshold

\* the instances of the group that are undesired against the target
UndesiredNow == {g \in group : ~isDesired(g, updatingTo)}

\* C8 as stated: the undesired count of each re-fetched snapshot is that of
\* the one before minus one.
C8_CountDropsByOne ==
    [][(pc = "quiesced" /\ pc' # "quiesced" /\ err' # ErrList
            /\ lastUndesired # -1)
        => lastUndesired' = lastUndesired - 1]_vars

\* C8 amended: Destroy calls are issued one per loop iteration, each after a
\* wait that returned nil at a poll made since the Destroy before, and each
\* for an undesired instance of the snapshot fetched in that iteration, whose
\* undesired count is whatever the group holds then.
C8_OneDestroyPerIteration ==
    [][destroyed' # destroyed =>
        /\ pc = "quiesced" /\ lastPoll = "ok"
        /\ pc' = "select" /\ lastPoll' = "none"
        /\ Len(destroyed') = Len(destroyed) + 1
        /\ SubSeq(destroyed', 1, Len(destroyed)) = destroyed
        /\ destroyed'[Len(destroyed')] \in UndesiredNow
        /\ lastUndesired' = Cardinality(UndesiredNow)]_vars

\* two instances were destroyed in two iterations, and Run returned nil
C8_Witness ==
    /\ Len(destroyed) = 2
    /\ destroyed[1].ID # destroyed[2].ID
    /\ pc = "done"
    /\ err = ErrNil

\* the healthy matching instances confirmed by the last wait that returned
\* nil, beyond the desired instances of the initial snapshot
Additional == IF confirmed > d0 THEN confirmed - d0 ELSE 0

\* the instances that were handed to Destroy
DestroyedIDs == {destroyed[i].ID : i \in DOMAIN destroyed}

\* C9 as stated: the Destroy calls exceed by at most one the healthy
\* matching instances confirmed beyond those of the initial snapshot (here
\* counting a repeated Destroy of one instance once).
C9_AtMostOneAhead ==
    Cardinality(DestroyedIDs) <= Additional + 1

\* C9 amended: the wait before the k-th Destroy confirmed
\* min(d0 + k - 1, Allocation.Size) healthy matching instances, so the bound
\* of C9 holds as long as the allocation size does not cap the threshold.
C9_AtMostOneAheadUntilCapped ==
    Len(destroyed) >= 1 =>
        /\ confirmed >= minInt(d0 + Len(destroyed) - 1, updatingTo.config.Size)
        /\ d0 + Len(destroyed) - 1 <= updatingTo.config.Size
              => Len(destroyed) <= (confirmed - d0) + 1

\* an instance was destroyed, its replacement confirmed healthy, and Run
\* returned nil
C9_Witness ==
    /\ Len(destroyed) = 1
    /\ d0 = 0
    /\ updatingTo.config.Size >= 1
    /\ confirmed = 1
    /\ pc = "done"
    /\ err = ErrNil

\* C10 as stated: a Run during which Stop was called returns the halted
\* error and nothing else (leaving aside a Run that a failure of List ends).
C10_StopAlwaysHalts ==
    (pc = "done" /\ stop = "closed" /\ err # ErrList) => err = ErrHalted

\* C10 amended: a wait that ends at its select with the channel closed and
\* without a verdict of a poll ends with the halted error; Run returns that
\* error only from a select with the channel closed, and after Run has
\* returned no Destroy is issued. A Run that gets past its last select
\* before the channel is seen closed returns what it would have returned.
C10_HaltedOnlyAtSelect ==
    /\ [](pc = "done" /\ err = ErrHalted => stop = "closed")
    /\ [](pc = "done" /\ lastPoll \in {"none", "wait"} /\ err # ErrList
            => err = ErrHalted)
    /\ [][(err' = ErrHalted /\ pc # "done")
            => (pc = "select" /\ stop = "closed" /\ pc' = "done"
                /\ destroyed' = destroyed)]_vars
    /\ [][pc = "done" => (pc' = "done" /\ err' = err
                          /\ destroyed' = destroyed)]_vars

\* Run was halted after it had issued a Destroy
C10_Witness ==
    /\ pc = "done"
    /\ err = ErrHalted
    /\ Len(destroyed) >= 1

(***************************************************************************)
(* SpecRunFair: SpecRun with the scheduling the Go runtime gives Run.  A   *)
(* select with several ready cases picks one of them at random, so a stop  *)
(* case that is ready at every select is eventually the one picked (strong *)
(* fairness); the sequential code of Run goes on whenever it can (weak     *)
(* fairness of its steps).  Nothing is assumed of the group.  The leader    *)
(* self update policy is the default one, "last".                          *)
(***************************************************************************)
RunFairness ==
    /\ SF_vars(WaitStop)
    /\ WF_vars(RunStart)
    /\ WF_vars(PollHealth)
    /\ WF_vars(RunIterate)

\* the leader self update policy is the default of the plugin options, and
\* the controller has a logical ID (a group in which no instance holds it
\* is updated like one of a controller without)
InitRunFair ==
    /\ InitRun
    /\ updatingTo.options.PolicyLeaderSelfUpdate = PolicyLeaderSelfUpdateLast
    /\ updatingTo.self # Nil

SpecRunFair == InitRunFair /\ [][NextRun]_vars /\ RunFairness

\* Run is not followed further: it is about to issue Destroy number
\* MaxDestroys + 1
BeyondBound ==
    pc = "quiesced" /\ Len(destroyed) = MaxDestroys /\ UndesiredNow # {}

\* C11: once the stop channel is closed, a wait that is polling returns, and
\* Run returns, whatever the answers of Health are.
C11_StopEndsWait ==
    /\ (stop = "closed" /\ pc \in {"select", "health"})
            ~> (pc \in {"quiesced", "done"})
    /\ (stop = "closed") ~> (pc = "done" \/ BeyondBound)

\* Run was halted while its polls found a matching instance in Unknown health
C11_Witness ==
    /\ pc = "done"
    /\ err = ErrHalted
    /\ lastPoll = "wait"
    /\ reported = <<UnknownHealth>>
    /\ threshold = 1

(***************************************************************************)
(* Run on a group that needs no update.                                    *)
(***************************************************************************)
\* the initial snapshot of Run had no undesired instance, and no instance was
\* provisioned since
NothingToUpdate ==
    /\ pc # "start"
    /\ u0 = 0
    /\ nextID = d0 + 1

\* C12 as stated: with an empty undesired set in the initial snapshot, a Run
\* that returns (List never failing, Stop never taken) returns nil and has
\* issued no Destroy.
C12_EmptyUndesiredSucceeds ==
    (NothingToUpdate /\ pc = "done" /\ err \notin {ErrList, ErrHalted})
        => (err = ErrNil /\ destroyed = <<>>)

\* C12, amended: with an empty undesired set in the initial snapshot and no
\* instance provisioned since, Run issues no Destroy and waits for
\* min(d0, Size) matching instances; it returns nil only after a poll that
\* counted that many Healthy and no Unhealthy answer, and an error only for an
\* Unhealthy answer, a failed List or a stop case taken.
C12_EmptyUndesiredNoDestroy ==
    NothingToUpdate =>
        /\ destroyed = <<>>
        /\ expectedNewInstances = d0
        /\ (pc = "done" /\ err = ErrNil) =>
              /\ lastPoll = "ok"
              /\ CountOf(reported, Unhealthy) = 0
              /\ CountOf(reported, Healthy) >= minInt(d0, updatingTo.config.Size)
        /\ (pc = "done" /\ err # ErrNil) =>
              \/ err = ErrList
              \/ err = ErrHalted /\ stop = "closed"
              \/ /\ reported # <<>>
                 /\ reported[Len(reported)] = Unhealthy
                 /\ err = ErrUnhealthy(matching[Len(reported)].ID)

\* Run returned nil on a group of two instances already at the target
C12_Witness ==
    /\ NothingToUpdate
    /\ pc = "done"
    /\ err = ErrNil
    /\ d0 = 2
    /\ updatingTo.config.Size = 2
    /\ reported = <<Healthy, Healthy>>

(***************************************************************************)
(* SpecRollout: a whole update of N instances, all at the old hash, to     *)
(* allocation size N, in a group that cooperates: Destroy returns once the *)
(* instance is gone, the group replaces what it lacks by instances at the  *)
(* target hash, the health of a replacement is Unknown until it settles at *)
(* Healthy, List does not fail and Stop is not called.                     *)
(***************************************************************************)
InitRollout ==
    /\ CIdle
    /\ EIdle
    /\ TIdle
    /\ DIdle
    /\ \E n \in 1..MaxN :
          /\ group = {Tagged(i, Nil, OldHash) : i \in 1..n}
          /\ nextID = n + 1
          /\ updatingFrom = settingsOf(OldHash, n, <<Nil, PolicyLeaderSelfUpdateLast>>)
          /\ updatingTo = settingsOf(NewHash, n, <<Nil, PolicyLeaderSelfUpdateLast>>)
    /\ steady = {}
    /\ stop = "open"
    /\ stopCalls = 0
    /\ pc = "start"
    /\ err = ErrNil
    /\ expectedNewInstances = 0
    /\ matching = <<>>
    /\ idx = 1
    /\ numHealthy = 0
    /\ reported = <<>>
    /\ lastPoll = "none"
    /\ destroyed = <<>>
    /\ reasons = <<>>
    /\ d0 = 0
    /\ u0 = 0
    /\ listFailed = FALSE
    /\ confirmed = 0
    /\ lastUndesired = -1
    /\ lateStop = FALSE

\* the instances handed to Destroy are gone
DestroysDone == Range(destroyed) \cap group = {}

\* a tick of the wait; Destroy has returned, so the instance is gone
RolloutTick == DestroysDone /\ PollTick

\* a call of Health: no instance of this group is Unhealthy
RolloutHealth == PollHealth /\ reported'[Len(reported')] # Unhealthy

\* Run is followed one Destroy beyond the N the update needs
RolloutIterate == RunIterateUpTo(updatingTo.config.Size + 1)

\* the group provisions the instance it lacks, at the target hash
RolloutReplace ==
    /\ Cardinality(group) < updatingTo.config.Size
    /\ group' = group \cup {Tagged(nextID, Nil, NewHash)}
    /\ nextID' = nextID + 1
    /\ UNCHANGED <<steady, tvars, dvars, evars, cvars, cfgvars, stopvars, runvars, obsvars>>

\* the health of a replacement settles at Healthy
HealthSettles ==
    /\ \E g \in group :
          /\ TagValue(g, ConfigSHATag) = NewHash
          /\ g.ID \notin steady
          /\ steady' = steady \cup {g.ID}
    /\ UNCHANGED <<group, nextID, tvars, dvars, evars, cvars, cfgvars, stopvars, runvars, obsvars>>

NextRollout ==
    \/ RunStart
    \/ RolloutTick
    \/ RolloutHealth
    \/ RolloutIterate
    \/ EnvRemove
    \/ RolloutReplace
    \/ HealthSettles

\* Run's goroutine goes on (the ticker fires, the calls return), and the group
\* goes on with what it owes while it owes something
RolloutRun == RunStart \/ RolloutTick \/ RolloutHealth \/ RolloutIterate
RolloutGroup == EnvRemove \/ RolloutReplace \/ HealthSettles

RolloutFairness ==
    /\ WF_vars(RolloutRun)
    /\ WF_vars(RolloutGroup)

SpecRollout == InitRollout /\ [][NextRollout]_vars /\ RolloutFairness

\* the instances of the group tagged with the configuration hash h
AtHash(h) == {g \in group : TagValue(g, ConfigSHATag) = h}

\* N: the size of the group Run started on, which is the allocation size
RolloutN == updatingTo.config.Size

\* Run never issues more than N destroys, each of another old instance, and at
\* its return it has issued N, the group holds N instances at the target hash
\* and none at the old one, and the value returned is nil
RolloutSafe ==
    /\ Len(destroyed) <= RolloutN
    /\ Cardinality(DestroyedIDs) = Len(destroyed)
    /\ \A i \in DOMAIN destroyed : TagValue(destroyed[i], ConfigSHATag) = OldHash
    /\ pc = "done" =>
          /\ err = ErrNil
          /\ Len(destroyed) = RolloutN
          /\ AtHash(OldHash) = {}
          /\ Cardinality(AtHash(NewHash)) = RolloutN

\* destroy number k+1 is issued from a wait whose last poll counted k Healthy
\* instances at the target hash
RolloutGated ==
    Len(destroyed') = Len(destroyed) + 1 =>
        /\ lastPoll = "ok"
        /\ confirmed >= Len(destroyed)
        /\ CountOf(reported, Healthy) >= Len(destroyed)
        /\ \A i \in DOMAIN matching : TagValue(matching[i], ConfigSHATag) = NewHash

\* C13: from N instances at the old hash with allocation size N, in the
\* cooperating group, Run issues exactly N destroys, the (k+1)-th only after
\* k Healthy instances at the target hash were observed, and eventually
\* returns nil with no old and N target instances in the group.
C13_FullRollout ==
    /\ []RolloutSafe
    /\ [][RolloutGated]_vars
    /\ <>(pc = "done")

\* the rollout of three instances is complete
C13_Witness ==
    /\ pc = "done"
    /\ err = ErrNil
    /\ RolloutN = 3
    /\ Len(destroyed) = 3
    /\ Cardinality(AtHash(NewHash)) = 3

(***************************************************************************)
(* Order of the calls within one Run.                                      *)
(***************************************************************************)
\* C14: every Destroy is issued on the return of a waitUntilQuiesced whose
\* last poll ran to its end, met no Unhealthy answer and counted the
\* threshold; the Destroy uses that return up, and only a poll gives a new
\* one, so no two Destroy calls follow each other without such a wait between.
C14_DestroysSequential ==
    [][/\ Len(destroyed') > Len(destroyed) =>
            /\ pc = "quiesced"
            /\ lastPoll = "ok"
            /\ PollComplete
            /\ CountOf(reported, Unhealthy) = 0
            /\ numHealthy = CountOf(reported, Healthy)
            /\ numHealthy >= threshold
            /\ lastPoll' = "none"
            /\ reported' = <<>>
       /\ (lastPoll' = "ok" /\ lastPoll # "ok") =>
            /\ pc \in {"select", "health"}
            /\ pc' = "quiesced"
            /\ destroyed' = destroyed]_vars

\* the second Destroy has just been issued, after a wait that counted a
\* Healthy instance
C14_Witness ==
    /\ Len(destroyed) = 2
    /\ pc = "select"
    /\ lastPoll = "none"
    /\ confirmed >= 1
    /\ expectedNewInstances >= 2

(***************************************************************************)
(* The value Run returns.                                                  *)
(***************************************************************************)
\* C15: Run returns nil only from the re-fetch that follows a wait returned
\* nil, when the snapshot of that re-fetch has no undesired instance against
\* the target (the group has none then); every other return carries an error:
\* the error of List, of the stop case, or of an Unhealthy answer.
C15_SuccessOnlyWhenUpdated ==
    pc = "done" =>
        /\ err = ErrNil =>
              /\ lastUndesired = 0
              /\ lastPoll = "ok"
              /\ PollComplete
              /\ UndesiredNow = {}
        /\ err # ErrNil =>
              /\ lastUndesired # 0
              /\ \/ err = ErrList
                 \/ err = ErrHalted
                 \/ err = ErrUnhealthy(matching[idx].ID) /\ lastPoll = "unhealthy"

\* Run returned nil after it had destroyed an instance and a wait had counted
\* its replacement Healthy
C15_Witness ==
    /\ pc = "done"
    /\ Len(destroyed) = 1
    /\ lastUndesired = 0
    /\ err = ErrNil
    /\ lastPoll = "ok"
    /\ reported = <<Healthy>>

(***************************************************************************)
(* Failures of List.                                                       *)
(***************************************************************************)
\* the calls of Scaled an observer has seen: Health and Destroy
ScaledCalls == <<reported, destroyed>>

\* C16: a failed List, at the start of Run, in a poll or at the re-fetch,
\* ends Run in the same step with the error of List; the step makes no other
\* call, and no Health or Destroy call nor any further step of Run follows.
C16_ListErrorReturned ==
    /\ [](listFailed => (pc = "done" /\ err = ErrList))
    /\ [][(listFailed' /\ ~listFailed) => ScaledCalls' = ScaledCalls]_vars
    /\ [][listFailed => (UNCHANGED ScaledCalls /\ UNCHANGED runvars)]_vars

\* the re-fetch after a wait that returned nil failed, a Destroy before it
C16_Witness ==
    /\ listFailed
    /\ pc = "done"
    /\ Len(destroyed) = 1
    /\ lastPoll = "ok"
    /\ lastUndesired = 1

(***************************************************************************)
(* An Unhealthy answer.                                                    *)
(***************************************************************************)
\* Run has returned the error of an Unhealthy answer
UnhealthyReturned == pc = "done" /\ lastPoll = "unhealthy"

\* C17 as stated: once Run has returned for an Unhealthy answer, every
\* instance that is undesired stays in the group.
C17_UndesiredStay ==
    [][UnhealthyReturned => UndesiredNow \subseteq group']_vars

\* C17, amended: the step that gets an Unhealthy answer ends Run with the
\* error naming that instance and issues no Destroy; no Destroy follows, and
\* the undesired instances that Run had not handed to Destroy before stay in
\* the group (one it had handed to Destroy can still go).
C17_UnhealthyStopsDestroys ==
    [][/\ reported' = Append(reported, Unhealthy) =>
            /\ pc' = "done"
            /\ err' = ErrUnhealthy(matching[idx].ID)
            /\ destroyed' = destroyed
            /\ group' = group
       /\ UnhealthyReturned =>
            /\ pc' = "done"
            /\ err' = err
            /\ destroyed' = destroyed
            /\ (UndesiredNow \ Range(destroyed)) \subseteq group']_vars

\* Run returned for an Unhealthy answer and left an undesired instance that
\* it had not handed to Destroy
C17_Witness ==
    /\ UnhealthyReturned
    /\ err.msg = ErrUnhealthy(0).msg
    /\ UndesiredNow \ Range(destroyed) # {}

(***************************************************************************)
(* Unknown health, and the ways out of a wait.                             *)
(***************************************************************************)
\* Run is inside waitUntilQuiesced
InWait(p) == p \in {"select", "health"}

\* C18: an Unknown answer leaves the counter as it is and ends neither the
\* wait nor Run with an error; a poll that ends with the counter below the
\* threshold leaves the wait polling; and the wait returns only by a count
\* that meets the threshold, an Unhealthy answer, a failed List or the stop
\* case with the channel closed: there is no other way out, so no timeout.
C18_UnknownKeepsWaiting ==
    [][/\ reported' = Append(reported, UnknownHealth) =>
            /\ numHealthy' = numHealthy
            /\ err' = err
            /\ pc' # "done"
            /\ (numHealthy < threshold => pc' \in {"select", "health"})
       /\ (InWait(pc) /\ ~InWait(pc')) =>
            \/ /\ pc' = "quiesced"
               /\ CountOf(reported', Healthy) >= threshold
               /\ CountOf(reported', Unhealthy) = 0
            \/ /\ pc' = "done"
               /\ reported' = Append(reported, Unhealthy)
               /\ err'.msg = ErrUnhealthy(0).msg
            \/ pc' = "done" /\ err' = ErrList /\ listFailed'
            \/ pc' = "done" /\ err' = ErrHalted /\ stop = "closed"]_vars

\* a poll with an Unknown and a Healthy answer ended below the threshold, and
\* the wait is at its select again
C18_Witness ==
    /\ pc = "select"
    /\ lastPoll = "wait"
    /\ CountOf(reported, UnknownHealth) = 1
    /\ CountOf(reported, Healthy) = 1
    /\ numHealthy = 1
    /\ threshold = 2
    /\ stop = "open"

(***************************************************************************)
(* SpecEnroll: one sync of the enrollment controller.  The source list is  *)
(* the group's instances, the enrolled list what the instance plugin       *)
(* describes; an instance is known by its position in its list, and its    *)
(* key is what the key selector renders for it (NoKey when that fails).    *)
(* No two instances of a list render the same key.                         *)
(***************************************************************************)
KeyLists ==
    UNION {{l \in [1..n -> EnrollKeys \cup {NoKey}] :
                \A i, j \in 1..n : (l[i] # NoKey /\ l[i] = l[j]) => i = j}
           : n \in 0..MaxInst}

SourceParseErrOps ==
    {"", "foo", SourceParseErrorDisableDestroy, SourceParseErrorEnableDestroy}
EnrollmentParseErrOps ==
    {"", "foo", EnrolledParseErrorDisableProvision, EnrolledParseErrorEnableProvision}

\* the option in force: an empty or unknown value is the default
sourceParseErrOp_UnknownDisables(v) ==
    IF v = SourceParseErrorEnableDestroy
    THEN SourceParseErrorEnableDestroy
    ELSE SourceParseErrorDisableDestroy

sourceParseErrOp(v) ==
    IF v = SourceParseErrorDisableDestroy
    THEN SourceParseErrorDisableDestroy
    ELSE SourceParseErrorEnableDestroy

enrollmentParseErrOp_UnknownDisables(v) ==
    IF v = EnrolledParseErrorEnableProvision
    THEN EnrolledParseErrorEnableProvision
    ELSE EnrolledParseErrorDisableProvision

enrollmentParseErrOp(v) ==
    IF v = EnrolledParseErrorDisableProvision
    THEN EnrolledParseErrorDisableProvision
    ELSE EnrolledParseErrorEnableProvision

\* the index of a list by key: the keys that could be rendered, and whether
\* one could not
indexKeys(list) == {list[i] : i \in DOMAIN list} \ {NoKey}
indexFailed(list) == \E i \in DOMAIN list : list[i] = NoKey

\* the source instances to enroll: those whose key no enrolled instance has
addSet(source, enrolled, options) ==
    IF /\ indexFailed(enrolled)
       /\ enrollmentParseErrOp(options.EnrollmentParseErrOp)
              = EnrolledParseErrorDisableProvision
    THEN {}
    ELSE {i \in DOMAIN source :
              source[i] # NoKey /\ source[i] \notin indexKeys(enrolled)}

\* the enrolled instances to remove: those whose key no source instance has
removeSet(source, enrolled, options) ==
    IF /\ indexFailed(source)
       /\ sourceParseErrOp(options.SourceParseErrOp)
              = SourceParseErrorDisableDestroy
    THEN {}
    ELSE {j \in DOMAIN enrolled :
              enrolled[j] # NoKey /\ enrolled[j] \notin indexKeys(source)}

ProvisionCall(i) == [op |-> "Provision", inst |-> i, ctx |-> ""]
DestroyCall(j) == [op |-> "Destroy", inst |-> j, ctx |-> Termination]

\* the calls of a sync that enrolls add and removes remove, in these orders
syncCalls_DestroyFirst(add, remove) ==
    [k \in DOMAIN remove |-> DestroyCall(remove[k])]
        \o [k \in DOMAIN add |-> ProvisionCall(add[k])]

syncCalls(add, remove) ==
    [k \in DOMAIN add |-> ProvisionCall(add[k])]
        \o [k \in DOMAIN remove |-> DestroyCall(remove[k])]

InitEnroll ==
    /\ CIdle
    /\ RIdle
    /\ TIdle
    /\ DIdle
    /\ eSource \in KeyLists
    /\ eEnrolled \in KeyLists
    /\ eOptions \in [SourceParseErrOp : SourceParseErrOps,
                     EnrollmentParseErrOp : EnrollmentParseErrOps]
    /\ ePc = "sync"
    /\ eCalls = <<>>

\* enroller.sync(), with every call of the instance plugin succeeding
Sync ==
    /\ ePc = "sync"
    /\ \E add \in Permutations_(addSet(eSource, eEnrolled, eOptions)),
          remove \in Permutations_(removeSet(eSource, eEnrolled, eOptions)) :
          eCalls' = syncCalls(add, remove)
    /\ ePc' = "returned"
    /\ UNCHANGED <<eSource, eEnrolled, eOptions>>
    /\ UNCHANGED <<tvars, dvars, cvars, envvars, cfgvars, stopvars, runvars, obsvars>>

NextEnroll == Sync

SpecEnroll == InitEnroll /\ [][NextEnroll]_vars

\* the instances named by the calls of the sync with the given operation
Called(op) == {eCalls[k].inst : k \in {n \in DOMAIN eCalls : eCalls[n].op = op}}
CallCount(op) == Cardinality({k \in DOMAIN eCalls : eCalls[k].op = op})

\* source instances with a key that no enrolled instance has, and enrolled
\* instances with a key that no source instance has
Missing == {i \in DOMAIN eSource :
               eSource[i] # NoKey /\ \A j \in DOMAIN eEnrolled : eEnrolled[j] # eSource[i]}
Orphans == {j \in DOMAIN eEnrolled :
               eEnrolled[j] # NoKey /\ \A i \in DOMAIN eSource : eSource[i] # eEnrolled[j]}

SlicesUpTo(S, n) == UNION {[1..m -> S] : m \in 0..n}

\* the variables of the other specifications, in a call of the plugin
PluginOnly ==
    /\ CIdle
    /\ RIdle
    /\ EIdle
    /\ DIdle

BackendTagKeys == {"t1", "t2"}
BackendTagVals == {"v1", "v2"}

\* map[string]string over the keys and values above
BackendTagMaps ==
    UNION {[D -> BackendTagVals] : D \in SUBSET BackendTagKeys}

\* the zero value of a map: no key
NoTags == [k \in {} |-> ""]

\* a backend struct: the fields correlateInstances and its callers read or write
Backend(fileTags, id, props, backendTags, complete) ==
    [fileTags |-> fileTags, backendID |-> id, backendProps |-> props,
     backendTags |-> backendTags, complete |-> complete]

(***************************************************************************)
(* SpecCorrelate: one call of b.correlateInstances(potentialMatches).      *)
(***************************************************************************)
\* the inner loop over p.backendTags
tagMatch_KeyOnly(tagKey, tagVal, p) ==
    \E backendTagKey \in DOMAIN p.backendTags : tagKey = backendTagKey

tagMatch(tagKey, tagVal, p) ==
    \E backendTagKey \in DOMAIN p.backendTags :
        /\ tagKey = backendTagKey
        /\ tagVal = p.backendTags[backendTagKey]

\* All file tags must match the backend tags
allTagsMatch(b, p) ==
    \A tagKey \in DOMAIN b.fileTags : tagMatch(tagKey, b.fileTags[tagKey], p)

RECURSIVE matchesOf(_, _)
matchesOf(b, potentialMatches) ==
    IF potentialMatches = <<>> THEN <<>>
    ELSE (IF allTagsMatch(b, Head(potentialMatches))
          THEN <<Head(potentialMatches)>> ELSE <<>>)
         \o matchesOf(b, Tail(potentialMatches))

\* the receiver after the call
correlateInstances(b, potentialMatches) ==
    IF Len(potentialMatches) = 0 THEN b
    ELSE LET matches == matchesOf(b, potentialMatches)
         IN IF Len(matches) = 0 THEN b
            ELSE IF Len(matches) = 1
                 THEN [b EXCEPT !.backendID = matches[1].backendID,
                                !.backendProps = matches[1].backendProps,
                                !.backendTags = matches[1].backendTags]
                 ELSE b

\* receivers: backend fields not yet set, or set by an earlier correlation
CorrelateReceivers ==
    {Backend(ft, "", "", NoTags, FALSE) : ft \in BackendTagMaps}
        \cup {Backend(ft, "id0", "bp0", [k \in {"t1"} |-> "v0"], TRUE) :
                  ft \in BackendTagMaps}

\* candidates, as the backend query returns them
CorrelateCandidates ==
    {Backend(NoTags, id[1], id[2], bt, TRUE) :
        id \in {<<"id1", "bp1">>, <<"id2", "bp2">>}, bt \in BackendTagMaps}

InitCorrelate ==
    /\ PluginOnly
    /\ tCall = "correlateInstances"
    /\ \E b \in CorrelateReceivers, potentialMatches \in SlicesUpTo(CorrelateCandidates, MaxLen) :
          tArgs = [b |-> b, potentialMatches |-> potentialMatches]
    /\ tResult = <<>>
    /\ tPc = "call"

CorrelateCall ==
    /\ tCall = "correlateInstances"
    /\ tPc = "call"
    /\ tResult' = correlateInstances(tArgs.b, tArgs.potentialMatches)
    /\ tPc' = "returned"
    /\ UNCHANGED <<tCall, tArgs>>
    /\ UNCHANGED <<evars, dvars, cvars, envvars, cfgvars, stopvars, runvars, obsvars>>

NextCorrelate == CorrelateCall

SpecCorrelate == InitCorrelate /\ [][NextCorrelate]_vars

\* the positions of the candidates that carry every file tag of the receiver
\* with the same value
Carriers ==
    {i \in DOMAIN tArgs.potentialMatches :
        \A k \in DOMAIN tArgs.b.fileTags :
            /\ k \in DOMAIN tArgs.potentialMatches[i].backendTags
            /\ tArgs.potentialMatches[i].backendTags[k] = tArgs.b.fileTags[k]}

\* C22: the receiver takes backendID, backendProps and backendTags of a
\* candidate exactly when one candidate alone carries every file tag of the
\* receiver with the same value, and takes them from that candidate; its
\* other fields stay, and with no such candidate or several the receiver is
\* left as it was.
C22_CorrelateUnique ==
    (tCall = "correlateInstances" /\ tPc = "returned") =>
        IF Cardinality(Carriers) = 1
        THEN LET p == tArgs.potentialMatches[CHOOSE i \in Carriers : TRUE]
             IN /\ tResult.backendID = p.backendID
                /\ tResult.backendProps = p.backendProps
                /\ tResult.backendTags = p.backendTags
                /\ tResult.fileTags = tArgs.b.fileTags
                /\ tResult.complete = tArgs.b.complete
        ELSE tResult = tArgs.b

\* file tags t1:v1 and t2:v2, a candidate with t1:v1 only and one with both:
\* the receiver takes the fields of the second
C22_Witness ==
    /\ tCall = "correlateInstances"
    /\ tPc = "returned"
    /\ tArgs.b.backendID = ""
    /\ tArgs.b.fileTags = [k \in {"t1", "t2"} |-> IF k = "t1" THEN "v1" ELSE "v2"]
    /\ Len(tArgs.potentialMatches) = 2
    /\ tArgs.potentialMatches[1].backendTags = [k \in {"t1"} |-> "v1"]
    /\ tArgs.potentialMatches[2].backendTags = tArgs.b.fileTags
    /\ tArgs.potentialMatches[2].backendID = "id2"
    /\ tResult.backendID = "id2"
    /\ tResult.backendProps = "bp2"

(***************************************************************************)
(* Strings that the code takes apart are sequences of characters.          *)
(***************************************************************************)
\* strings.Index(line, sep) for a one-character sep: Go's index, -1 if absent
Index(line, sep) ==
    IF \E i \in DOMAIN line : line[i] = sep
    THEN (CHOOSE i \in DOMAIN line :
             /\ line[i] = sep
             /\ \A j \in 1..(i - 1) : line[j] # sep) - 1
    ELSE -1

\* line[from:to] with Go's indices
Slice(line, from, to) == SubSeq(line, from + 1, to)

Digits == <<"0", "1", "2", "3", "4", "5", "6", "7", "8", "9">>

\* fmt.Sprintf("%v", n) for an int n >= 0
RECURSIVE FormatInt(_)
FormatInt(n) ==
    IF n < 10 THEN <<Digits[n + 1]>>
    ELSE FormatInt(n \div 10) \o <<Digits[(n % 10) + 1]>>

\* a map with one more assignment m[key] = value
MapPut(m, key, value) ==
    [k \in DOMAIN m \cup {key} |-> IF k = key THEN value ELSE m[k]]

(***************************************************************************)
(* GetIBMCloudInstances and parseTags.  A pointer field of a VM is <<>>    *)
(* when nil and <<v>> when set.                                            *)
(***************************************************************************)
TfErrNil == [msg |-> "", args |-> <<>>]
ErrCustom == [msg |-> "Custom error", args |-> <<>>]
ErrMissingID(vm) == [msg |-> "Returned VM is missing an ID: %v", args |-> <<vm>>]

RECURSIVE parseTagsFrom(_)
parseTagsFrom(refs) ==
    IF refs = <<>> THEN NoTags
    ELSE LET tag == refs[Len(refs)]
             m == parseTagsFrom(SubSeq(refs, 1, Len(refs) - 1))
             i == Index(tag, ":")
         IN IF i >= 0
            THEN MapPut(m, Slice(tag, 0, i), Slice(tag, i + 1, Len(tag)))
            ELSE MapPut(m, tag, <<>>)

parseTags(vm) == parseTagsFrom(vm.TagReferences)

propsOf(vm) ==
    LET p1 == IF vm.PrimaryIpAddress # <<>>
              THEN MapPut(NoTags, "ipv4_address", vm.PrimaryIpAddress[1])
              ELSE NoTags
        p2 == IF vm.PrimaryBackendIpAddress # <<>>
              THEN MapPut(p1, "ipv4_address_private", vm.PrimaryBackendIpAddress[1])
              ELSE p1
    IN IF vm.Hostname # <<>> THEN MapPut(p2, "hostname", vm.Hostname[1]) ELSE p2

completeOf_AnyProp(props) == Cardinality(DOMAIN props) >= 1

completeOf(props) == Cardinality(DOMAIN props) = 3

backendOf(vm) ==
    Backend(NoTags, FormatInt(vm.Id[1]), propsOf(vm), parseTags(vm),
            completeOf(propsOf(vm)))

\* the loop over the VMs: the results so far, or the error of the first VM
\* without an ID
RECURSIVE ibmResults(_)
ibmResults(vms) ==
    IF vms = <<>> THEN [results |-> <<>>, err |-> TfErrNil]
    ELSE LET r == ibmResults(SubSeq(vms, 1, Len(vms) - 1))
             vm == vms[Len(vms)]
         IN IF r.err # TfErrNil THEN r
            ELSE IF vm.Id = <<>>
                 THEN [results |-> <<>>, err |-> ErrMissingID(vm)]
                 ELSE [results |-> Append(r.results, backendOf(vm)),
                       err |-> TfErrNil]

\* api: what c.GetVirtualGuests answers
GetIBMCloudInstances(api) ==
    IF api.err # TfErrNil THEN [results |-> <<>>, err |-> api.err]
    ELSE ibmResults(api.vms)

(***************************************************************************)
(* SpecGetExisting: one call of p.getExistingResources(data).              *)
(***************************************************************************)
MaxData == 3

VMAmazon == "aws_instance"
VMAzure == "azurerm_virtual_machine"
VMIBMCloud == "ibm_compute_vm_instance"
VMSoftLayer == "softlayer_virtual_guest"

\* the supported VM types
VMTypes == {VMAmazon, VMAzure, VMIBMCloud, VMSoftLayer}

\* resource types of the elements: the VM types and one that is none
ResTypes == VMTypes \cup {"storage"}

ErrNoData == [msg |-> "No backend data provided", args |-> <<>>]
ErrOnlyVM(resType) ==
    [msg |-> "Only VM backend retrieval is supported, invalid resource type: %s",
     args |-> <<resType>>]
ErrMultiple(resType, other) ==
    [msg |-> "Multiple resource types are not supported, detected both '%s' and '%s'",
     args |-> <<resType, other>>]

\* the tags of an element's file properties
parseTerraformTags(resType, fileProps) == fileProps.tags

\* a *backend of the data slice, with the fields of the tf.json file
FileBackend(resType, fileProps) ==
    [resType |-> resType, fileProps |-> fileProps, fileTags |-> NoTags,
     backendID |-> <<>>, backendProps |-> NoTags, backendTags |-> NoTags,
     complete |-> FALSE]

\* the loop over data that allows a single VM type: the error of the first
\* element that fails, looking at the unsupported type first
RECURSIVE checkTypes_MultipleFirst(_, _, _)
checkTypes_MultipleFirst(data, i, resType) ==
    IF i > Len(data) THEN TfErrNil
    ELSE IF resType # "" /\ resType # data[i].resType
         THEN ErrMultiple(resType, data[i].resType)
         ELSE IF data[i].resType \notin VMTypes
              THEN ErrOnlyVM(data[i].resType)
              ELSE checkTypes_MultipleFirst(data, i + 1, data[i].resType)

RECURSIVE checkTypes(_, _, _)
checkTypes(data, i, resType) ==
    IF i > Len(data) THEN TfErrNil
    ELSE IF data[i].resType \notin VMTypes
         THEN ErrOnlyVM(data[i].resType)
         ELSE IF resType = ""
              THEN checkTypes(data, i + 1, data[i].resType)
              ELSE IF resType # data[i].resType
                   THEN ErrMultiple(resType, data[i].resType)
                   ELSE checkTypes(data, i + 1, resType)

\* the elements after the call, the error, and whether the backend was asked
getExistingResources(data, api) ==
    IF Len(data) = 0
    THEN [data |-> data, err |-> ErrNoData, queried |-> FALSE]
    ELSE LET typeErr == checkTypes(data, 1, "")
             resType == data[1].resType
             tagged == [i \in DOMAIN data |->
                          [data[i] EXCEPT !.fileTags =
                              parseTerraformTags(data[i].resType, data[i].fileProps)]]
         IN IF typeErr # TfErrNil
            THEN [data |-> data, err |-> typeErr, queried |-> FALSE]
            ELSE IF resType \in {VMSoftLayer, VMIBMCloud}
                 THEN LET vms == GetIBMCloudInstances(api)
                      IN IF vms.err # TfErrNil
                         THEN [data |-> tagged, err |-> vms.err, queried |-> TRUE]
                         ELSE [data |-> [i \in DOMAIN tagged |->
                                           correlateInstances(tagged[i], vms.results)],
                               err |-> TfErrNil, queried |-> TRUE]
                 ELSE [data |-> [i \in DOMAIN tagged |->
                                   correlateInstances(tagged[i], <<>>)],
                       err |-> TfErrNil, queried |-> FALSE]

\* tag strings
TagT1V1 == <<"t", "1", ":", "v", "1">>
TagT2 == <<"t", "2">>

GuestVM(id, tagReferences) ==
    [Id |-> id, PrimaryIpAddress |-> <<"169.0.0.1">>,
     PrimaryBackendIpAddress |-> <<"10.0.0.1">>, Hostname |-> <<"hostname1">>,
     TagReferences |-> tagReferences]

\* answers of the backend: an error, no VM, one VM, two VMs with the same
\* tags, a VM without an ID
ExistingAnswers ==
    {[err |-> ErrCustom, vms |-> <<>>],
     [err |-> TfErrNil, vms |-> <<>>],
     [err |-> TfErrNil, vms |-> <<GuestVM(<<1>>, <<TagT1V1, TagT2>>)>>],
     [err |-> TfErrNil, vms |-> <<GuestVM(<<1>>, <<TagT1V1>>),
                                  GuestVM(<<2>>, <<TagT1V1>>)>>],
     [err |-> TfErrNil, vms |-> <<GuestVM(<<>>, <<TagT1V1>>)>>]}

\* the tags of the file properties: none, or t1:v1
FilePropsSet ==
    {[tags |-> NoTags], [tags |-> MapPut(NoTags, <<"t", "1">>, <<"v", "1">>)]}

FileBackends ==
    {FileBackend(resType, fileProps) :
        resType \in ResTypes, fileProps \in FilePropsSet}

InitGetExisting ==
    /\ PluginOnly
    /\ tCall = "getExistingResources"
    /\ \E data \in SlicesUpTo(FileBackends, MaxData), api \in ExistingAnswers :
          tArgs = [data |-> data, api |-> api]
    /\ tResult = <<>>
    /\ tPc = "call"

GetExistingCall ==
    /\ tCall = "getExistingResources"
    /\ tPc = "call"
    /\ tResult' = getExistingResources(tArgs.data, tArgs.api)
    /\ tPc' = "returned"
    /\ UNCHANGED <<tCall, tArgs>>
    /\ UNCHANGED <<evars, dvars, cvars, envvars, cfgvars, stopvars, runvars, obsvars>>

NextGetExisting == GetExistingCall

SpecGetExisting == InitGetExisting /\ [][NextGetExisting]_vars

GetExistingReturned == tCall = "getExistingResources" /\ tPc = "returned"

RejectMsgs == {ErrNoData.msg, ErrOnlyVM("").msg, ErrMultiple("", "").msg}

\* positions of the elements that are no supported VM, and of those whose
\* type differs from the first element's
Unsupported == {i \in DOMAIN tArgs.data : tArgs.data[i].resType \notin VMTypes}
Differing ==
    {i \in DOMAIN tArgs.data : tArgs.data[i].resType # tArgs.data[1].resType}

\* C23 as stated: whenever some element is no supported VM the error is the
\* "Only VM backend retrieval" one, and whenever two elements have
\* different supported VM types it is the "Multiple resource types" one.
C23_RejectsByKind ==
    GetExistingReturned =>
        /\ (Unsupported # {} => tResult.err.msg = ErrOnlyVM("").msg)
        /\ ((\E i, j \in DOMAIN tArgs.data :
                /\ tArgs.data[i].resType \in VMTypes
                /\ tArgs.data[j].resType \in VMTypes
                /\ tArgs.data[i].resType # tArgs.data[j].resType)
               => tResult.err.msg = ErrMultiple("", "").msg)

\* C23: a rejected input is returned unmodified and without a backend
\* query; an empty list gives "No backend data provided"; otherwise the
\* first element in list order that is no supported VM or differs in type
\* from the first element decides: "Only VM backend retrieval is supported"
\* for the former, "Multiple resource types are not supported" for the
\* latter; elements of one supported VM type without a backend
\* implementation give no error, no query, and backendID, backendProps and
\* complete as they were.
C23_RejectsInOrder ==
    GetExistingReturned =>
        LET data == tArgs.data
            bad == Unsupported \cup Differing
            first == CHOOSE i \in bad : \A j \in bad : i <= j
        IN /\ tResult.err.msg \in RejectMsgs =>
                 tResult.data = data /\ ~tResult.queried
           /\ (tResult.err = ErrNoData) <=> (data = <<>>)
           /\ (data # <<>> /\ bad # {}) =>
                 IF first \in Unsupported
                 THEN tResult.err = ErrOnlyVM(data[first].resType)
                 ELSE tResult.err = ErrMultiple(data[1].resType, data[first].resType)
           /\ (data # <<>> /\ bad = {}) => tResult.err.msg \notin RejectMsgs
           /\ (data # <<>> /\ bad = {}
                 /\ data[1].resType \notin {VMSoftLayer, VMIBMCloud}) =>
                 /\ tResult.err = TfErrNil
                 /\ ~tResult.queried
                 /\ \A i \in DOMAIN data :
                       /\ tResult.data[i].backendID = data[i].backendID
                       /\ tResult.data[i].backendProps = data[i].backendProps
                       /\ tResult.data[i].complete = data[i].complete

\* two VMs of different types followed by a storage element: rejected for
\* the two types
C23_Witness ==
    /\ GetExistingReturned
    /\ Len(tArgs.data) = 3
    /\ tArgs.data[1].resType = VMAmazon
    /\ tArgs.data[2].resType = VMIBMCloud
    /\ tArgs.data[3].resType = "storage"
    /\ tResult.err = ErrMultiple(VMAmazon, VMIBMCloud)
    /\ tResult.data = tArgs.data
    /\ ~tResult.queried

(***************************************************************************)
(* SpecMerge: one call of mergeLabelsIntoTagSlice(tags, labels).           *)
(***************************************************************************)
MaxTags == 2

\* the map after the loop over tags
RECURSIVE tagsIntoMap(_)
tagsIntoMap(tags) ==
    IF tags = <<>> THEN NoTags
    ELSE LET line == tags[Len(tags)]
             m == tagsIntoMap(SubSeq(tags, 1, Len(tags) - 1))
             i == Index(line, ":")
         IN IF i > 0
            THEN MapPut(m, Slice(line, 0, i),
                        IF i + 1 < Len(line) THEN Slice(line, i + 1, Len(line))
                        ELSE <<>>)
            ELSE MapPut(m, line, <<>>)

\* the map after the loop over labels
mergedMap_TagsWin(tags, labels) ==
    LET m == tagsIntoMap(tags)
    IN [k \in DOMAIN m \cup DOMAIN labels |->
           IF k \in DOMAIN m THEN m[k] ELSE labels[k]]

mergedMap(tags, labels) ==
    LET m == tagsIntoMap(tags)
    IN [k \in DOMAIN m \cup DOMAIN labels |->
           IF k \in DOMAIN labels THEN labels[k] ELSE m[k]]

\* one line of the final format
formatLine(k, v) == IF v # <<>> THEN k \o <<":">> \o v ELSE k

\* the slices the call can return: the range over the map takes the keys in
\* any order
mergeLabelsIntoTagSlice(tags, labels) ==
    LET m == mergedMap(tags, labels)
    IN {[nil |-> FALSE,
         lines |-> [i \in DOMAIN order |-> formatLine(order[i], m[order[i]])]] :
           order \in Permutations_(DOMAIN m)}

\* tags: "a", "a:b", "a:c", "a:", ":a", "c:a:b"
MergeTags ==
    {<<"a">>, <<"a", ":", "b">>, <<"a", ":", "c">>, <<"a", ":">>, <<":", "a">>,
     <<"c", ":", "a", ":", "b">>}

\* labels: keys "a", ":a" and "d", values "" and "b"
MergeLabelKeys == {<<"a">>, <<":", "a">>, <<"d">>}
MergeLabelVals == {<<>>, <<"b">>}
MergeLabels == UNION {[D -> MergeLabelVals] : D \in SUBSET MergeLabelKeys}

InitMerge ==
    /\ PluginOnly
    /\ tCall = "mergeLabelsIntoTagSlice"
    /\ \E tags \in SlicesUpTo(MergeTags, MaxTags), labels \in MergeLabels :
          tArgs = [tags |-> tags, labels |-> labels]
    /\ tResult = <<>>
    /\ tPc = "call"

MergeCall ==
    /\ tCall = "mergeLabelsIntoTagSlice"
    /\ tPc = "call"
    /\ tResult' \in mergeLabelsIntoTagSlice(tArgs.tags, tArgs.labels)
    /\ tPc' = "returned"
    /\ UNCHANGED <<tCall, tArgs>>
    /\ UNCHANGED <<evars, dvars, cvars, envvars, cfgvars, stopvars, runvars, obsvars>>

NextMerge == MergeCall

SpecMerge == InitMerge /\ [][NextMerge]_vars

MergeReturned == tCall = "mergeLabelsIntoTagSlice" /\ tPc = "returned"

\* the key of a tag: the text before its first colon when that colon is not
\* the first character, else the whole tag
TagKey(line) ==
    IF \E i \in 2..Len(line) : line[i] = ":" /\ line[1] # ":"
    THEN SubSeq(line, 1, (CHOOSE i \in 2..Len(line) :
                             line[i] = ":" /\ \A j \in 1..(i - 1) : line[j] # ":") - 1)
    ELSE line

\* the text of a tag after the colon that ends its key
TagRest(line) ==
    IF TagKey(line) = line THEN <<>>
    ELSE SubSeq(line, Len(TagKey(line)) + 2, Len(line))

MergeKeys ==
    {TagKey(tArgs.tags[i]) : i \in DOMAIN tArgs.tags} \cup DOMAIN tArgs.labels

\* line is the entry of key k: "k:v" for a non-empty v and "k" for an empty
\* one, where v is the label's value if k is a label, else the value of a
\* tag with that key
EntryOf(line, k) ==
    IF k \in DOMAIN tArgs.labels
    THEN line = formatLine(k, tArgs.labels[k])
    ELSE \E i \in DOMAIN tArgs.tags :
            /\ TagKey(tArgs.tags[i]) = k
            /\ line = IF TagRest(tArgs.tags[i]) # <<>>
                      THEN k \o <<":">> \o TagRest(tArgs.tags[i])
                      ELSE k

\* C24: the slice returned has exactly one entry per distinct key of the
\* tags and the labels, each "key:value" for a non-empty value and "key"
\* otherwise, with the label's value for a key that is in both; it is never
\* nil, and empty for empty inputs.
C24_MergeOnePerKey ==
    MergeReturned =>
        /\ ~tResult.nil
        /\ Len(tResult.lines) = Cardinality(MergeKeys)
        /\ \E f \in [DOMAIN tResult.lines -> MergeKeys] :
              /\ \A i, j \in DOMAIN tResult.lines : f[i] = f[j] => i = j
              /\ \A i \in DOMAIN tResult.lines : EntryOf(tResult.lines[i], f[i])
        /\ (tArgs.tags = <<>> /\ DOMAIN tArgs.labels = {}) => tResult.lines = <<>>

\* tags "a:c" and ":a" with the labels a -> "b" and d -> "": the lines are
\* "d", ":a" and "a:b", here in this order
C24_Witness ==
    /\ MergeReturned
    /\ tArgs.tags = <<<<"a", ":", "c">>, <<":", "a">>>>
    /\ DOMAIN tArgs.labels = {<<"a">>, <<"d">>}
    /\ tArgs.labels[<<"a">>] = <<"b">>
    /\ tArgs.labels[<<"d">>] = <<>>
    /\ tResult.lines = <<<<"d">>, <<":", "a">>, <<"a", ":", "b">>>>

(***************************************************************************)
(* SpecIBM: one call of GetIBMCloudInstances(c, tagFilter).                *)
(***************************************************************************)
MaxVMs == 2

\* the VMs the API can return: with or without an ID, each address and the
\* hostname set or nil, without tags or with two
GuestVMs ==
    {[Id |-> id, PrimaryIpAddress |-> pub, PrimaryBackendIpAddress |-> priv,
      Hostname |-> host, TagReferences |-> refs] :
        id \in {<<>>, <<1>>, <<12>>},
        pub \in {<<>>, <<"169.0.0.1">>},
        priv \in {<<>>, <<"10.0.0.1">>},
        host \in {<<>>, <<"hostname1">>},
        refs \in {<<>>, <<TagT1V1, TagT2>>}}

\* what c.GetVirtualGuests answers: VMs, an error, or both
GuestAnswers(n) ==
    {[err |-> apiErr, vms |-> vms] :
        apiErr \in {TfErrNil, ErrCustom}, vms \in SlicesUpTo(GuestVMs, n)}

InitIBM ==
    /\ PluginOnly
    /\ tCall = "GetIBMCloudInstances"
    /\ \E api \in GuestAnswers(MaxVMs) : tArgs = [api |-> api]
    /\ tResult = <<>>
    /\ tPc = "call"

IBMCall ==
    /\ tCall = "GetIBMCloudInstances"
    /\ tPc = "call"
    /\ tResult' = GetIBMCloudInstances(tArgs.api)
    /\ tPc' = "returned"
    /\ UNCHANGED <<tCall, tArgs>>
    /\ UNCHANGED <<evars, dvars, cvars, envvars, cfgvars, stopvars, runvars, obsvars>>

NextIBM == IBMCall

SpecIBM == InitIBM /\ [][NextIBM]_vars

IBMReturned == tCall = "GetIBMCloudInstances" /\ tPc = "returned"

\* positions of the returned VMs that have no ID
NoID == {i \in DOMAIN tArgs.api.vms : tArgs.api.vms[i].Id = <<>>}

\* C25: when the API call fails or some returned VM has no ID, the call
\* returns an error and no entry; otherwise no error and one entry per VM,
\* in order, carrying the VM's ID, and complete exactly when the public
\* address, the private address and the hostname are all present.
C25_AllOrNothing ==
    IBMReturned =>
        LET vms == tArgs.api.vms
        IN IF tArgs.api.err # TfErrNil \/ NoID # {}
           THEN /\ tResult.err # TfErrNil
                /\ tResult.results = <<>>
           ELSE /\ tResult.err = TfErrNil
                /\ Len(tResult.results) = Len(vms)
                /\ \A i \in DOMAIN vms :
                      /\ tResult.results[i].backendID = FormatInt(vms[i].Id[1])
                      /\ tResult.results[i].complete <=>
                            /\ vms[i].PrimaryIpAddress # <<>>
                            /\ vms[i].PrimaryBackendIpAddress # <<>>
                            /\ vms[i].Hostname # <<>>

\* a complete VM with an ID followed by one without an ID: an error and no
\* entry
C25_Witness ==
    /\ IBMReturned
    /\ tArgs.api.err = TfErrNil
    /\ Len(tArgs.api.vms) = 2
    /\ tArgs.api.vms[1].Id = <<1>>
    /\ tArgs.api.vms[1].PrimaryBackendIpAddress # <<>>
    /\ tArgs.api.vms[2].Id = <<>>
    /\ tResult.err = ErrMissingID(tArgs.api.vms[2])
    /\ tResult.results = <<>>

(***************************************************************************)
(* Run: the threshold, the Destroy of an iteration, Stop and Health.       *)
(***************************************************************************)
\* Run is in a call of waitUntilQuiesced, or between its return and the
\* next call
InCycle == pc \in {"select", "health", "quiesced"}

\* C26: in every iteration of Run the threshold handed to waitUntilQuiesced
\* is the smaller of d0 + k and the target's Allocation.Size, with d0 the
\* number of desired instances of the initial snapshot and k the number of
\* Destroy calls issued so far; it never exceeds the size and never
\* decreases during a Run.
C26_Threshold ==
    [][/\ InCycle' =>
             /\ threshold' = (IF d0' + Len(destroyed') <= updatingTo'.config.Size
                              THEN d0' + Len(destroyed')
                              ELSE updatingTo'.config.Size)
             /\ threshold' <= updatingTo'.config.Size
       /\ threshold' >= threshold]_vars

\* after a Destroy the count d0 + k has passed the size: the wait is given
\* the size
C26_Witness ==
    /\ pc = "select"
    /\ d0 >= 1
    /\ Len(destroyed) >= 1
    /\ d0 + Len(destroyed) > updatingTo.config.Size
    /\ threshold = updatingTo.config.Size
    /\ threshold > 0

\* a step of Run from the return of a wait through the re-fetch
Refetched == pc = "quiesced" /\ pc' # "quiesced" /\ err' # ErrList

\* the instance of S that the sorted order puts before every other one
FirstSorted(S, settings) ==
    CHOOSE x \in S : \A y \in S \ {x} : sortLess(x, y, settings)

\* C27: an iteration of Run that finds undesired instances issues exactly
\* one Destroy, with the reason RollingUpdate, for the instance that the
\* sorted order puts first among the undesired ones of the snapshot; the
\* instance is determined by the set of instances and the settings, whatever
\* the order List gave them in; an iteration that finds none issues no
\* Destroy, and nothing else issues one.
C27_OneDestroyFirstSorted ==
    [][/\ (Refetched /\ UndesiredNow # {}) =>
            /\ destroyed' = Append(destroyed, FirstSorted(UndesiredNow, updatingFrom))
            /\ reasons' = Append(reasons, RollingUpdate)
            /\ \A y \in UndesiredNow \ {destroyed'[Len(destroyed')]} :
                  sortLess(destroyed'[Len(destroyed')], y, updatingFrom)
       /\ ~(Refetched /\ UndesiredNow # {}) =>
            /\ destroyed' = destroyed
            /\ reasons' = reasons]_vars

\* the snapshot held the undesired instances 1 and 2: Destroy was called
\* for 1, with the reason RollingUpdate, and 2 is still in the group
C27_Witness ==
    /\ pc = "select"
    /\ u0 = 2
    /\ Len(destroyed) = 1
    /\ destroyed[1].ID = 1
    /\ reasons = <<RollingUpdate>>
    /\ \E g \in UndesiredNow : g.ID = 2

\* C28: under the policy Last, a step of Run that hands the self instance
\* to Destroy is an iteration whose snapshot holds no other undesired
\* instance.
C28_SelfDestroyedLast ==
    [][(/\ updatingTo.self # Nil
        /\ updatingTo.options.PolicyLeaderSelfUpdate = PolicyLeaderSelfUpdateLast
        /\ Len(destroyed') > Len(destroyed)
        /\ isSelf(destroyed'[Len(destroyed')], updatingTo))
          => /\ Refetched
             /\ UndesiredNow = {destroyed'[Len(destroyed')]}]_vars

\* the snapshot held two undesired instances, one of them self: the other
\* one was destroyed first, self second
C28_Witness ==
    /\ updatingTo.self # Nil
    /\ updatingTo.options.PolicyLeaderSelfUpdate = PolicyLeaderSelfUpdateLast
    /\ u0 = 2
    /\ Len(destroyed) = 2
    /\ ~isSelf(destroyed[1], updatingTo)
    /\ isSelf(destroyed[2], updatingTo)
    /\ destroyed[2].ID < destroyed[1].ID

\* C29: Stop ends nothing by itself and is seen only by the select of a
\* wait.  When it is called after a wait has returned success and before
\* the Destroy of that cycle, Run goes on as if it had not been called: it
\* re-fetches the snapshot, issues the one Destroy of the cycle when there
\* are undesired instances (and returns success when there are none), and
\* the halted error comes only from the select of a later wait.
C29_StopSeenInWaitOnly ==
    [][/\ (stop = "open" /\ stop' = "closed") =>
            /\ pc' = pc
            /\ err' = err
            /\ destroyed' = destroyed
       /\ (lateStop /\ Refetched) =>
            IF UndesiredNow # {}
            THEN /\ destroyed' = Append(destroyed, FirstSorted(UndesiredNow, updatingFrom))
                 /\ pc' = "select"
                 /\ err' = ErrNil
            ELSE /\ destroyed' = destroyed
                 /\ pc' = "done"
                 /\ err' = ErrNil
       /\ (err' = ErrHalted /\ err # ErrHalted) =>
            /\ pc = "select"
            /\ stop = "closed"
            /\ pc' = "done"
            /\ destroyed' = destroyed]_vars

\* Stop was called between the return of a wait and the re-fetch; Run has
\* issued the Destroy of the cycle and is in the select of the next wait,
\* not halted yet
C29_Witness ==
    /\ lateStop
    /\ stop = "closed"
    /\ pc = "select"
    /\ lastPoll = "none"
    /\ Len(destroyed) >= 1
    /\ err = ErrNil

\* C30: Health is called only on instances that the classifier puts in the
\* desired list for updatingTo; the instance an unhealthy error names is
\* one of them; and a poll whose matching instances answer Healthy in the
\* number waited for, none of them Unhealthy, ends the wait with success
\* whatever undesired instances the group holds.
C30_HealthOfMatchingOnly ==
    [][/\ Len(reported') > Len(reported) =>
            /\ pc = "health"
            /\ reported' = Append(reported, reported'[Len(reported')])
            /\ Len(reported') = idx
            /\ isDesired(matching[idx], updatingTo)
       /\ (pc # "done" /\ pc' = "done" /\ err' # ErrNil /\ err' # ErrList
             /\ err' # ErrHalted) =>
            /\ err' = ErrUnhealthy(matching[idx].ID)
            /\ isDesired(matching[idx], updatingTo)
            /\ reported'[idx] = Unhealthy
       /\ (pc \in {"select", "health"} /\ matching' = matching
             /\ Len(reported') = Len(matching') /\ Len(reported') > Len(reported)
             /\ CountOf(reported', Unhealthy) = 0
             /\ CountOf(reported', Healthy) >= threshold) =>
            /\ pc' = "quiesced"
            /\ lastPoll' = "ok"]_vars

\* the group holds a desired and an undesired instance; the poll asked the
\* desired one only, and the wait has returned success
C30_Witness ==
    /\ pc = "quiesced"
    /\ lastPoll = "ok"
    /\ Cardinality(group) = 2
    /\ Cardinality(UndesiredNow) = 1
    /\ Len(matching) = 1
    /\ matching[1] \in group \ UndesiredNow
    /\ reported = <<Healthy>>

SelfAsStated(inst, settings) ==
    /\ settings.self # Nil
    /\ \/ inst.LogicalID # Nil /\ inst.LogicalID = settings.self
       \/ /\ inst.LogicalID = Nil \/ inst.LogicalID # settings.self
          /\ LogicalIDTag \in DOMAIN inst.Tags
          /\ inst.Tags[LogicalIDTag] = settings.self

\* C32: isSelf holds exactly when settings.self is set and either the
\* logical ID of the instance is set and equal to it or, the logical ID
\* being absent or different, the instance carries the logical ID tag with
\* the value of settings.self; it holds of no instance when settings.self is
\* unset.  Under the policy Never the classifier keeps an instance without
\* the target hash as desired exactly in that case.
C32_IsSelfExactly ==
    \A i \in DOMAIN cInstances :
        LET inst == cInstances[i]
        IN /\ isSelf(inst, cSettings) <=> SelfAsStated(inst, cSettings)
           /\ cSettings.self = Nil => ~isSelf(inst, cSettings)
           /\ (/\ cPc = "returned"
               /\ cSettings.options.PolicyLeaderSelfUpdate
                    = PolicyLeaderSelfUpdateNever
               /\ ~(TagHas(inst, ConfigSHATag)
                      /\ TagValue(inst, ConfigSHATag)
                           = InstanceHash(cSettings.config))) =>
                 (inst \in Range(cResult[1]) <=> SelfAsStated(inst, cSettings))

\* the classifier has returned; an instance whose logical ID differs from
\* self but whose logical ID tag carries it was kept as desired by the
\* policy Never, and one with neither was not
C32_Witness ==
    /\ cPc = "returned"
    /\ cSettings.self = "m1"
    /\ cSettings.options.PolicyLeaderSelfUpdate = PolicyLeaderSelfUpdateNever
    /\ Len(cInstances) = 2
    /\ cInstances[1].LogicalID = "m2"
    /\ TagHas(cInstances[1], LogicalIDTag)
    /\ TagValue(cInstances[1], LogicalIDTag) = "m1"
    /\ ~TagHas(cInstances[1], ConfigSHATag)
    /\ cInstances[2].LogicalID = "m2"
    /\ ~TagHas(cInstances[2], LogicalIDTag)
    /\ cResult[1] = <<cInstances[1]>>
    /\ cResult[2] = <<cInstances[2]>>

(***************************************************************************)
(* SpecStop: Run with an owner that calls Stop any number of times, before *)
(* Run, during it or after its return.  A panic ends the program: pc is    *)
(* "panic" from then on and Run takes no further step.                     *)
(***************************************************************************)
MaxStops == 2

\* close(ch) leaves every channel closed
closeChan_Idempotent(ch) == "closed"

\* close(r.stop): closing a closed channel panics
closeChan(ch) == IF ch = "open" THEN "closed" ELSE "panic"

\* Stop, every call of it
StopCall ==
    /\ pc # "panic"
    /\ stopCalls < MaxStops
    /\ stopCalls' = stopCalls + 1
    /\ IF closeChan(stop) = "panic"
       THEN /\ pc' = "panic"
            /\ UNCHANGED <<stop, lateStop>>
       ELSE /\ stop' = closeChan(stop)
            /\ lateStop' = (pc = "quiesced")
            /\ pc' = pc
    /\ UNCHANGED <<err, expectedNewInstances, matching, idx, numHealthy>>
    /\ UNCHANGED <<reported, lastPoll, destroyed, reasons, d0, u0, listFailed, confirmed,
                   lastUndesired>>
    /\ UNCHANGED <<tvars, dvars, evars, cvars, envvars, cfgvars>>

\* the settings name no self: Stop does not look at them
InitStop ==
    /\ InitRun
    /\ updatingTo.self = Nil

NextStop ==
    \/ RunStart
    \/ ListFails
    \/ PollTick
    \/ PollHealth
    \/ WaitStop
    \/ RunIterate
    \/ StopCall
    \/ EnvProvision
    \/ EnvRemove

SpecStop == InitStop /\ [][NextStop]_vars

\* C33: the first Stop closes the stop channel and is no fault; a second
\* Stop on the same rolling update panics instead of returning silently.
C33_SecondStopPanics ==
    /\ stopCalls = 0 => stop = "open" /\ pc # "panic"
    /\ stopCalls = 1 => stop = "closed" /\ pc # "panic"
    /\ stopCalls >= 2 => stop = "closed" /\ pc = "panic"

\* Stop was called twice while Run was waiting, and the program panicked
\* before Run returned
C33_Witness ==
    /\ stopCalls = 2
    /\ pc = "panic"
    /\ stop = "closed"
    /\ err = ErrNil
    /\ lastPoll = "wait"

\* an instance kept as desired by the self-protection override alone: no
\* config hash tag or another hash than the target's, self, policy Never
ProtectedOnly(inst) ==
    /\ ~(ConfigSHATag \in DOMAIN inst.Tags
           /\ inst.Tags[ConfigSHATag] = updatingTo.config.hash)
    /\ SelfAsStated(inst, updatingTo)
    /\ updatingTo.options.PolicyLeaderSelfUpdate = PolicyLeaderSelfUpdateNever

\* a step of the wait from its select that is a tick of the ticker
TickStep ==
    /\ pc = "select"
    /\ pc' # "done"
    /\ group' = group
    /\ stopCalls' = stopCalls

MaxNodes == 2
maxAttempts == 11

NodeRoleManager == "manager"
NodeRoleWorker == "worker"
NodeRoles == {NodeRoleManager, NodeRoleWorker}

DrainNil == "nil"
ErrMissingConfig == "missing config"
ErrDecode == "decode failed"
ErrNoAssociation == "Unable to drain %s without an association tag"
ErrConnect == "connect failed"
ErrNodeList == "NodeList failed"
ErrNodeInspect == "NodeInspectWithRaw failed"
ErrNodeRemove == "NodeRemove failed"
ErrNodeUpdate == "NodeUpdate failed"
ErrTooMany == "Expected at most one node with label %s, but found %v"

\* a call on the Docker client as the daemon sees it
DCall(op, by, res) == [op |-> op, by |-> by, res |-> res]
CloseCall == DCall("Close", "Drain", "ok")
OkOrErr(ok) == IF ok THEN "ok" ELSE "err"

\* what an inspect told its caller: an error, or the role of the node
InspectRes(ok, role) == IF ok THEN role ELSE "err"

\* Drain has returned e; the deferred Close has run if the client was there
DrainReturned(e, n, calls, client) ==
    [result |-> e, nodes |-> n, spawned |-> FALSE,
     calls |-> IF client THEN Append(calls, CloseCall) ELSE calls,
     client |-> IF client THEN "closed" ELSE "none"]

\* Drain has started the routine and not returned yet
DrainSpawned(calls) ==
    [result |-> DrainNil, nodes |-> 1, spawned |-> TRUE, calls |-> calls,
     client |-> "open"]

\* the switch on len(nodes)
nodeCase_FirstOfMany(n) == IF n = 0 THEN "none" ELSE "one"

nodeCase(n) == IF n = 0 THEN "none" ELSE IF n = 1 THEN "one" ELSE "many"

\* if nodeInfo.Spec.Role != swarm.NodeRoleManager
notManager(role) == role # NodeRoleManager

\* Drain from its entry to its go statement or to its return, with the
\* answers ans of its collaborators
drainMain(a, ans) ==
    IF a.props = "nil" THEN DrainReturned(ErrMissingConfig, -1, <<>>, FALSE)
    ELSE IF a.props = "bad" THEN DrainReturned(ErrDecode, -1, <<>>, FALSE)
    ELSE IF ~a.link THEN DrainReturned(ErrNoAssociation, -1, <<>>, FALSE)
    ELSE IF ~ans.connect THEN DrainReturned(ErrConnect, -1, <<>>, FALSE)
    ELSE
      LET c1 == <<DCall("NodeList", "Drain", OkOrErr(ans.list))>>
          c2 == Append(c1, DCall("NodeInspectWithRaw", "Drain",
                                 InspectRes(ans.inspect, ans.role)))
          c3r == Append(c2, DCall("NodeRemove", "Drain", OkOrErr(ans.remove)))
          c3u == Append(c2, DCall("NodeUpdate", "Drain", OkOrErr(ans.update)))
      IN IF ~ans.list THEN DrainReturned(ErrNodeList, -1, c1, TRUE)
         ELSE IF nodeCase(ans.n) = "none"
              THEN DrainReturned(DrainNil, ans.n, c1, TRUE)
         ELSE IF nodeCase(ans.n) = "one"
              THEN IF ~ans.inspect
                   THEN DrainReturned(ErrNodeInspect, ans.n, c2, TRUE)
                   ELSE IF notManager(ans.role)
                   THEN IF ~ans.remove
                        THEN DrainReturned(ErrNodeRemove, ans.n, c3r, TRUE)
                        ELSE DrainReturned(DrainNil, ans.n, c3r, TRUE)
                   ELSE IF ~ans.update
                        THEN DrainReturned(ErrNodeUpdate, ans.n, c3u, TRUE)
                        ELSE DrainSpawned(c3u)
         ELSE DrainReturned(ErrTooMany, ans.n, c1, TRUE)

DrainArgs == [props : {"nil", "bad", "ok"}, link : BOOLEAN, self : BOOLEAN]

InitDrain ==
    /\ CIdle
    /\ RIdle
    /\ EIdle
    /\ TIdle
    /\ dArgs \in DrainArgs
    /\ dPc = "call"
    /\ dResult = DrainNil
    /\ dClient = "none"
    /\ dNodes = -1
    /\ dCalls = <<>>
    /\ gPc = "none"
    /\ attempt = 0

DrainCallUpTo(maxNodes) ==
    /\ dPc = "call"
    /\ \E ans \in [connect : BOOLEAN, list : BOOLEAN, n : 0..maxNodes,
                   inspect : BOOLEAN, role : NodeRoles, remove : BOOLEAN,
                   update : BOOLEAN] :
          LET r == drainMain(dArgs, ans)
          IN /\ dResult' = r.result
             /\ dNodes' = r.nodes
             /\ dCalls' = r.calls
             /\ dClient' = r.client
             /\ dPc' = IF r.spawned THEN "spawned" ELSE "returned"
             /\ gPc' = IF r.spawned THEN "loop" ELSE "none"
    /\ UNCHANGED <<dArgs, attempt>>
    /\ UNCHANGED <<evars, tvars, cvars, envvars, cfgvars, stopvars, runvars, obsvars>>

DrainCall == DrainCallUpTo(MaxNodes)

\* return nil after the go statement, and the deferred dockerClient.Close()
DrainReturn ==
    /\ dPc = "spawned"
    /\ dPc' = "returned"
    /\ dClient' = "closed"
    /\ dCalls' = Append(dCalls, CloseCall)
    /\ UNCHANGED <<dArgs, dResult, dNodes, gPc, attempt>>
    /\ UNCHANGED <<evars, tvars, cvars, envvars, cfgvars, stopvars, runvars, obsvars>>

\* err == nil and nodeInfo.Spec.Role == swarm.NodeRoleWorker: break
demoted_AnyInspect(ok, role) == ok

demoted(ok, role) == ok /\ role = NodeRoleWorker

\* if attempt < maxAttempts { continue }
retry_OffByOne(a) == a <= maxAttempts

retry(a) == a < maxAttempts

\* one iteration of the loop of the routine: the sleep and the inspect
RoutineInspect ==
    /\ gPc = "loop"
    /\ attempt' = attempt + 1
    /\ \E ok \in BOOLEAN, role \in NodeRoles :
          /\ dCalls' = Append(dCalls, DCall("NodeInspectWithRaw", "routine",
                                            InspectRes(ok, role)))
          /\ gPc' = IF demoted(ok, role) THEN "leave"
                    ELSE IF retry(attempt') THEN "loop"
                    ELSE "ended"
    /\ UNCHANGED <<dArgs, dPc, dResult, dClient, dNodes>>
    /\ UNCHANGED <<evars, tvars, cvars, envvars, cfgvars, stopvars, runvars, obsvars>>

\* after the loop: SwarmLeave if s.isSelf(inst), NodeRemove otherwise
RoutineLeave ==
    /\ gPc = "leave"
    /\ \E ok \in BOOLEAN :
          dCalls' = Append(dCalls,
                           DCall(IF dArgs.self THEN "SwarmLeave" ELSE "NodeRemove",
                                 "routine", OkOrErr(ok)))
    /\ gPc' = "ended"
    /\ UNCHANGED <<dArgs, dPc, dResult, dClient, dNodes, attempt>>
    /\ UNCHANGED <<evars, tvars, cvars, envvars, cfgvars, stopvars, runvars, obsvars>>

NextDrain ==
    \/ DrainCall
    \/ DrainReturn
    \/ RoutineInspect
    \/ RoutineLeave

SpecDrain == InitDrain /\ [][NextDrain]_vars

\* the routine is scheduled and its calls on the client return
DrainFairness == WF_vars(RoutineInspect) /\ WF_vars(RoutineLeave)

SpecDrainFair == InitDrain /\ [][NextDrain]_vars /\ DrainFairness

\* the positions in the call log of the calls op made by who
CallsOf(op, who) ==
    {i \in DOMAIN dCalls : dCalls[i].op = op /\ dCalls[i].by = who}

\* the positions of the calls by which the routine takes the node out
TakeOuts == CallsOf("SwarmLeave", "routine") \cup CallsOf("NodeRemove", "routine")

\* the positions of the inspects of the routine that reported the worker role
WorkerSeen ==
    {i \in CallsOf("NodeInspectWithRaw", "routine") :
        dCalls[i].res = NodeRoleWorker}

\* Drain found exactly one node and its inspect reported it a manager
ManagerDrained ==
    /\ Len(dCalls) >= 2
    /\ dNodes = 1
    /\ dCalls[2] = DCall("NodeInspectWithRaw", "Drain", NodeRoleManager)

\* C35: when Drain finds the node a manager, the first call that changes the
\* swarm is the NodeUpdate that demotes it, and Drain itself neither removes
\* the node nor leaves the swarm; the routine takes the node out by at most
\* one call, SwarmLeave when the instance is self and NodeRemove otherwise,
\* and only after the NodeUpdate has succeeded and an inspect of the routine
\* has reported the worker role; once such an inspect was made and the
\* routine has ended, exactly one such call was issued.
C35_DemoteBeforeTakeOut ==
    /\ CallsOf("SwarmLeave", "Drain") = {}
    /\ ManagerDrained =>
          /\ CallsOf("NodeRemove", "Drain") = {}
          /\ Len(dCalls) >= 3 => dCalls[3].op = "NodeUpdate"
    /\ gPc # "none" => ManagerDrained /\ dCalls[3] = DCall("NodeUpdate", "Drain", "ok")
    /\ Cardinality(TakeOuts) <= 1
    /\ \A i \in TakeOuts :
          /\ dCalls[i].op = IF dArgs.self THEN "SwarmLeave" ELSE "NodeRemove"
          /\ \E j \in 1..(i - 1), k \in 1..(i - 1) :
                /\ j < k
                /\ dCalls[j] = DCall("NodeUpdate", "Drain", "ok")
                /\ k \in WorkerSeen
    /\ (gPc = "ended" /\ WorkerSeen # {}) => Cardinality(TakeOuts) = 1

\* the instance is self: the demote succeeded, the first inspect of the
\* routine still reported a manager, the second a worker, and the routine
\* ended with a SwarmLeave
C35_Witness ==
    /\ gPc = "ended"
    /\ dArgs.self
    /\ attempt = 2
    /\ CallsOf("NodeUpdate", "Drain") = {3}
    /\ Cardinality(CallsOf("NodeInspectWithRaw", "routine")) = 2
    /\ Cardinality(WorkerSeen) = 1
    /\ CallsOf("SwarmLeave", "routine") = {Len(dCalls)}
    /\ CallsOf("NodeRemove", "routine") = {}

\* the calls of Drain that change the swarm
DrainChanges ==
    {i \in DOMAIN dCalls :
        dCalls[i].op \in {"NodeUpdate", "NodeRemove", "SwarmLeave"}}

\* C36: once Drain has run, an instance without a valid association tag has
\* given an error before any call (the one naming the tag when the
\* properties are there and decode); no labelled node gives success and more
\* than one the error, in both cases after the NodeList alone; exactly one
\* node that its inspect reports not to be a manager is removed by Drain
\* itself, with no demote and no routine started.
C36_OutcomeByNodeCount ==
    dPc # "call" =>
        /\ ~dArgs.link =>
              /\ dResult = IF dArgs.props = "nil" THEN ErrMissingConfig
                           ELSE IF dArgs.props = "bad" THEN ErrDecode
                           ELSE ErrNoAssociation
              /\ dCalls = <<>>
              /\ dClient = "none"
              /\ gPc = "none"
        /\ dNodes = 0 =>
              /\ dResult = DrainNil
              /\ dCalls = <<DCall("NodeList", "Drain", "ok"), CloseCall>>
              /\ gPc = "none"
        /\ dNodes > 1 =>
              /\ dResult = ErrTooMany
              /\ dCalls = <<DCall("NodeList", "Drain", "ok"), CloseCall>>
              /\ gPc = "none"
        /\ (dNodes = 1 /\ Len(dCalls) >= 2
              /\ dCalls[2] = DCall("NodeInspectWithRaw", "Drain", NodeRoleWorker)) =>
              /\ Len(dCalls) = 4
              /\ dCalls[3].op = "NodeRemove"
              /\ dCalls[3].by = "Drain"
              /\ dCalls[4] = CloseCall
              /\ dResult = IF dCalls[3].res = "ok" THEN DrainNil ELSE ErrNodeRemove
              /\ DrainChanges = {3}
              /\ gPc = "none"
              /\ attempt = 0

\* two nodes carry the label: Drain has returned the error after its NodeList
C36_Witness ==
    /\ dPc = "returned"
    /\ dNodes = 2
    /\ dResult = ErrTooMany
    /\ DrainChanges = {}
    /\ dClient = "closed"

\* C37: the routine ends whenever it was started; it inspects the node at
\* most 11 times; when it has ended without an inspect that reported the
\* worker role it has issued neither SwarmLeave nor NodeRemove, and
\* otherwise exactly one of the two.
C37_RoutineTerminates ==
    /\ [](/\ Cardinality(CallsOf("NodeInspectWithRaw", "routine")) <= 11
          /\ Cardinality(CallsOf("NodeInspectWithRaw", "routine")) = attempt
          /\ (gPc = "ended" /\ WorkerSeen = {}) =>
                TakeOuts = {} /\ attempt = 11
          /\ (gPc = "ended" /\ WorkerSeen # {}) =>
                Cardinality(TakeOuts) = 1 /\ Cardinality(WorkerSeen) = 1)
    /\ (gPc \in {"loop", "leave"}) ~> (gPc = "ended")

\* eleven inspects, none reporting the worker role: the routine has ended
\* and the node is still in the swarm
C37_Witness ==
    /\ gPc = "ended"
    /\ attempt = 11
    /\ Cardinality(CallsOf("NodeInspectWithRaw", "routine")) = 11
    /\ WorkerSeen = {}
    /\ TakeOuts = {}

\* C38 as stated: the client is not closed while the routine can still use
\* it, and every call of the routine comes before the Close.
C38_CloseAfterRoutine ==
    /\ gPc \in {"loop", "leave"} => dClient # "closed"
    /\ \A i, j \in DOMAIN dCalls :
          (dCalls[i].op = "Close" /\ dCalls[j].by = "routine") => j < i

====
